---- MODULE Spec2Model ----
(***************************************************************************)
(* Model of the IR construction pipeline of octofhir/codegen:             *)
(*   core/parser.rs        StructureDefinitionParser                       *)
(*   core/resolver.rs      SchemaResolver (two caches over the manager)    *)
(*   core/graph_builder.rs TypeGraphBuilder                                *)
(*   core/ir.rs            TypeGraph                                       *)
(*                                                                         *)
(* JSON values are records.  An optional field (serde_json `get` followed *)
(* by `as_str`/`as_array`) is a sequence of length 0 (absent, or of the    *)
(* wrong JSON type) or 1 (present).  A Rust Result is a record with the    *)
(* field ok.                                                               *)
(***************************************************************************)
EXTENDS Integers, Sequences, FiniteSets, TLC

None == <<>>
Some(x) == <<x>>
IsSome(o) == o # <<>>
Unwrap(o) == o[1]

Ok(v) == [ok |-> TRUE, val |-> v]
Err(e) == [ok |-> FALSE, err |-> e]

Range(s) == {s[i] : i \in 1..Len(s)}

\* Sequences of pairwise different elements of S, of length at most n.
DistinctSeqs(S, n) ==
    {s \in UNION {[1..k -> S] : k \in 0..n} :
        \A i, j \in 1..Len(s) : i # j => s[i] # s[j]}

(***************************************************************************)
(* Bounds of the model.                                                    *)
(***************************************************************************)
MaxDocs == 3      \* hits of one StructureDefinition search
MaxParams == 2    \* hits of one SearchParameter search
MaxBatch == 2     \* documents of one categorize_structures batch

(***************************************************************************)
(* core/parser.rs                                                          *)
(***************************************************************************)

\* A dotted path is the sequence of its '.'-separated segments; a segment
\* is its text without trailing "[x]" and the number of trailing "[x]".
Seg(s) == [stem |-> s, nx |-> 0]
SegX(s) == [stem |-> s, nx |-> 1]

\* str::parse::<u32> on the numerals the model uses (a leading '+' is
\* accepted); any other text fails.
ParseU32(s) ==
    CASE s = "0" -> Ok(0)
      [] s = "1" -> Ok(1)
      [] s = "2" -> Ok(2)
      [] s = "3" -> Ok(3)
      [] s = "+2" -> Ok(2)
      [] OTHER -> Err("invalid digit")

\* A JSON number that as_u64 accepts: hi * 2^32 + lo, with lo < 2^32.
U64(hi, lo) == [hi |-> hi, lo |-> lo]

\* `as u32` on a u64 keeps the low 32 bits.
AsU32(v) == v.lo

Unbounded == [finite |-> FALSE, n |-> 0]
Finite(n) == [finite |-> TRUE, n |-> n]

\* parse_element_type: code is required; targetProfile is read for
\* code "Reference" only (a single string or an array of strings, both
\* given here as the list of strings).
ParseElementType(type_obj) ==
    IF type_obj.code = None THEN Err("Type missing code")
    ELSE Ok([code |-> Unwrap(type_obj.code),
             target_profiles |->
                 IF Unwrap(type_obj.code) = "Reference" /\ IsSome(type_obj.targetProfile)
                 THEN Unwrap(type_obj.targetProfile) ELSE <<>>])

RECURSIVE FilterOk(_)
FilterOk(rs) ==
    IF rs = <<>> THEN <<>>
    ELSE (IF Head(rs).ok THEN <<Head(rs).val>> ELSE <<>>) \o FilterOk(Tail(rs))

\* parse_element: path is required; min is as_u64().unwrap_or(0) as u32;
\* max is "*", a u32 numeral, or anything else (then Finite(1)).
ParseElement(elem) ==
    IF elem.path = None THEN Err("Element missing path")
    ELSE Ok([path |-> Unwrap(elem.path),
             min |-> AsU32(IF IsSome(elem.min) THEN Unwrap(elem.min) ELSE U64(0, 0)),
             max |-> IF elem.max = None THEN Finite(1)
                     ELSE IF Unwrap(elem.max) = "*" THEN Unbounded
                     ELSE IF ParseU32(Unwrap(elem.max)).ok
                          THEN Finite(ParseU32(Unwrap(elem.max)).val)
                          ELSE Finite(1),
             types |-> IF IsSome(elem.type)
                       THEN FilterOk([i \in 1..Len(Unwrap(elem.type)) |->
                                          ParseElementType(Unwrap(elem.type)[i])])
                       ELSE <<>>])

\* parse_element_definitions: the container needs an element array and
\* every element must parse (collect into Result).
ParseElementDefinitions(container) ==
    IF container.element = None THEN Err("Missing element array")
    ELSE LET elems == Unwrap(container.element)
             parsed == [i \in 1..Len(elems) |-> ParseElement(elems[i])]
         IN  IF \E i \in 1..Len(elems) : ~parsed[i].ok
             THEN Err("Element missing path")
             ELSE Ok([i \in 1..Len(elems) |-> parsed[i].val])

\* StructureKindOf with a default arm in place of the error.
StructureKindOfLenient(kind) ==
    CASE kind = "resource" -> Ok("Resource")
      [] kind = "complex-type" -> Ok("ComplexType")
      [] kind = "primitive-type" -> Ok("PrimitiveType")
      [] OTHER -> Ok("LogicalModel")

StructureKindOf(kind) ==
    CASE kind = "resource" -> Ok("Resource")
      [] kind = "complex-type" -> Ok("ComplexType")
      [] kind = "primitive-type" -> Ok("PrimitiveType")
      [] kind = "logical" -> Ok("LogicalModel")
      [] OTHER -> Err("Unknown kind")

\* The container parse() reads the elements from, and the flag it sets.
SelectContainerPreferringDifferential(json) ==
    IF IsSome(json.differential)
    THEN Ok([container |-> Unwrap(json.differential), differential |-> TRUE])
    ELSE IF IsSome(json.snapshot)
    THEN Ok([container |-> Unwrap(json.snapshot), differential |-> FALSE])
    ELSE Err("Missing both snapshot and differential")

SelectContainer(json) ==
    IF IsSome(json.snapshot)
    THEN Ok([container |-> Unwrap(json.snapshot), differential |-> FALSE])
    ELSE IF IsSome(json.differential)
    THEN Ok([container |-> Unwrap(json.differential), differential |-> TRUE])
    ELSE Err("Missing both snapshot and differential")

\* parse(): the value it returns (the insertion into the parser's cache is
\* made by the actions that call it).
Parse(json) ==
    IF json.resourceType = None THEN Err("Missing resourceType")
    ELSE IF Unwrap(json.resourceType) # "StructureDefinition"
         THEN Err("Expected StructureDefinition")
    ELSE IF json.url = None THEN Err("Missing url")
    ELSE IF json.name = None THEN Err("Missing name")
    ELSE IF json.kind = None THEN Err("Missing kind")
    ELSE IF ~StructureKindOf(Unwrap(json.kind)).ok THEN Err("Unknown kind")
    ELSE LET selected == SelectContainer(json)
             elements == ParseElementDefinitions(selected.val.container)
         IN  IF ~selected.ok THEN selected
             ELSE IF ~elements.ok THEN elements
             ELSE Ok([url |-> Unwrap(json.url),
                      name |-> Unwrap(json.name),
                      kind |-> StructureKindOf(Unwrap(json.kind)).val,
                      base_definition |-> json.baseDefinition,
                      is_abstract |-> IF IsSome(json.abstract)
                                      THEN Unwrap(json.abstract) ELSE FALSE,
                      elements |-> elements.val,
                      differential |-> selected.val.differential])

PrimitiveCodes ==
    {"base64Binary", "boolean", "canonical", "code", "date", "dateTime",
     "decimal", "id", "instant", "integer", "integer64", "markdown", "oid",
     "positiveInt", "string", "time", "unsignedInt", "uri", "url", "uuid",
     "xhtml"}

is_primitive(type_code) == type_code \in PrimitiveCodes

\* The leaf of elements_to_properties: the path with the "type_name."
\* prefix stripped when it has it, cut at the first remaining '.'.
LeafOf(path, type_name) ==
    IF Len(path) >= 2 /\ path[1] = Seg(type_name) THEN path[2] ELSE path[1]

\* PropertyTypeOf without the test for target profiles.
PropertyTypeOfAnyReference(types) ==
    IF types = <<>> THEN [variant |-> "BackboneElement", properties |-> <<>>]
    ELSE IF Len(types) = 1
         THEN IF types[1].code = "Reference"
              THEN [variant |-> "Reference",
                    target_types |-> [i \in 1..Len(types[1].target_profiles) |->
                        LET url == types[1].target_profiles[i] IN url[Len(url)]]]
              ELSE IF is_primitive(types[1].code)
                   THEN [variant |-> "Primitive", type_name |-> types[1].code]
                   ELSE [variant |-> "Complex", type_name |-> types[1].code]
         ELSE [variant |-> "Choice",
               types |-> [i \in 1..Len(types) |-> types[i].code]]

\* The variant of a flattened element.
PropertyTypeOf(types) ==
    IF types = <<>> THEN [variant |-> "BackboneElement", properties |-> <<>>]
    ELSE IF Len(types) = 1
         THEN IF types[1].code = "Reference" /\ types[1].target_profiles # <<>>
              THEN [variant |-> "Reference",
                    target_types |-> [i \in 1..Len(types[1].target_profiles) |->
                        LET url == types[1].target_profiles[i] IN url[Len(url)]]]
              ELSE IF is_primitive(types[1].code)
                   THEN [variant |-> "Primitive", type_name |-> types[1].code]
                   ELSE [variant |-> "Complex", type_name |-> types[1].code]
         ELSE [variant |-> "Choice",
               types |-> [i \in 1..Len(types) |-> types[i].code]]

\* ToProperty with strip_suffix in place of trim_end_matches.
ToPropertyStrippingOnce(elem, leaf) ==
    LET is_choice == leaf.nx > 0
    IN  [name |-> IF leaf.nx > 1 THEN leaf.stem \o "[x]" ELSE leaf.stem,
         path |-> elem.path,
         property_type |-> PropertyTypeOf(elem.types),
         cardinality |-> [min |-> elem.min,
                          max |-> IF elem.max.finite THEN Some(elem.max.n) ELSE None],
         is_choice |-> is_choice,
         choice_types |-> IF is_choice
                          THEN [i \in 1..Len(elem.types) |-> elem.types[i].code]
                          ELSE <<>>]

ToProperty(elem, leaf) ==
    LET is_choice == leaf.nx > 0
    IN  [name |-> leaf.stem,
         path |-> elem.path,
         property_type |-> PropertyTypeOf(elem.types),
         cardinality |-> [min |-> elem.min,
                          max |-> IF elem.max.finite THEN Some(elem.max.n) ELSE None],
         is_choice |-> is_choice,
         choice_types |-> IF is_choice
                          THEN [i \in 1..Len(elem.types) |-> elem.types[i].code]
                          ELSE <<>>]

\* elements_to_properties: the loop over the elements, `properties` being
\* the list built so far.
RECURSIVE FlattenFrom(_, _, _)
FlattenFrom(elements, type_name, properties) ==
    IF elements = <<>> THEN properties
    ELSE LET elem == Head(elements)
             leaf == LeafOf(elem.path, type_name)
         IN  IF elem.path = <<Seg(type_name)>>
             THEN FlattenFrom(Tail(elements), type_name, properties)
             ELSE IF \E i \in 1..Len(properties) : Seg(properties[i].name) = leaf
             THEN FlattenFrom(Tail(elements), type_name, properties)
             ELSE FlattenFrom(Tail(elements), type_name,
                              Append(properties, ToProperty(elem, leaf)))

elements_to_properties(elements, type_name) == FlattenFrom(elements, type_name, <<>>)

to_resource_type(parsed) ==
    IF parsed.kind # "Resource" THEN Err("is not a resource")
    ELSE Ok([name |-> parsed.name,
             base |-> parsed.base_definition,
             properties |-> elements_to_properties(parsed.elements, parsed.name),
             search_parameters |-> <<>>,
             short |-> "FHIR " \o parsed.name \o " Resource",
             url |-> parsed.url,
             is_abstract |-> parsed.is_abstract])

\* to_datatype without the test of the kind.
to_datatype_of_any_kind(parsed) ==
    Ok([name |-> parsed.name,
        base |-> parsed.base_definition,
        properties |-> elements_to_properties(parsed.elements, parsed.name),
        short |-> "FHIR " \o parsed.name \o " DataType",
        url |-> parsed.url,
        is_abstract |-> parsed.is_abstract])

to_datatype(parsed) ==
    IF parsed.kind # "ComplexType" THEN Err("is not a complex type")
    ELSE Ok([name |-> parsed.name,
             base |-> parsed.base_definition,
             properties |-> elements_to_properties(parsed.elements, parsed.name),
             short |-> "FHIR " \o parsed.name \o " DataType",
             url |-> parsed.url,
             is_abstract |-> parsed.is_abstract])

(***************************************************************************)
(* core/ir.rs: TypeGraph.  An IndexMap is the sequence of its entries in   *)
(* insertion order; a HashMap is a function on its set of keys.            *)
(***************************************************************************)
Keys(m) == {m[i].k : i \in 1..Len(m)}
Get(m, key) == (CHOOSE i \in 1..Len(m) : m[i].k = key)
Lookup(m, key) == m[Get(m, key)].v

\* IndexMap::insert: a present key keeps its place and gets the new value.
Insert(m, key, value) ==
    IF key \in Keys(m)
    THEN [m EXCEPT ![Get(m, key)] = [k |-> key, v |-> value]]
    ELSE Append(m, [k |-> key, v |-> value])

NewTypeGraph ==
    [resources |-> <<>>, datatypes |-> <<>>, primitives |-> <<>>,
     profiles |-> <<>>, source_packages |-> <<>>]

add_resource(g, name, resource) ==
    [g EXCEPT !.resources = Insert(g.resources, name, resource)]
add_datatype(g, name, datatype) ==
    [g EXCEPT !.datatypes = Insert(g.datatypes, name, datatype)]
add_primitive(g, name, primitive) ==
    [g EXCEPT !.primitives = Insert(g.primitives, name, primitive)]

add_profile(g, name, profile) ==
    [g EXCEPT !.profiles = Insert(g.profiles, name, profile)]

\* CardinalityRange: min is a u32 and max an Option<u32>.
CardinalityRange(min, max) == [min |-> min, max |-> max]

required == CardinalityRange(1, Some(1))
optional == CardinalityRange(0, Some(1))
required_array == CardinalityRange(1, None)
optional_array == CardinalityRange(0, None)

is_required(self) == self.min >= 1

\* is_array that takes an unbounded max only.
is_array_when_unbounded(self) == self.max = None

is_array(self) == self.max = None \/ (IsSome(self.max) /\ Unwrap(self.max) > 1)

is_optional(self) == self.min = 0

EmptyMap == <<>>
MapPut(m, key, value) == (key :> value) @@ m
MapRemove(m, key) == [x \in DOMAIN m \ {key} |-> m[x]]

(***************************************************************************)
(* core/resolver.rs: get_resources_by_type.  The answer of the external    *)
(* client is an input: the search fails or lists hits; a hit has a url or  *)
(* not, and resolving its url yields the full content or fails.            *)
(***************************************************************************)
Hit(url, resolved) == [url |-> url, resolved |-> resolved]

RECURSIVE ResolveHits(_)
ResolveHits(hits) ==
    IF hits = <<>> THEN <<>>
    ELSE (IF IsSome(Head(hits).url) /\ Head(hits).resolved.ok
          THEN <<Head(hits).resolved.val>> ELSE <<>>) \o ResolveHits(Tail(hits))

get_resources_by_type(search) ==
    IF ~search.ok THEN Err("CanonicalManager") ELSE Ok(ResolveHits(search.val))

\* A call of the external client and whether it succeeded.
Call(fn, ok) == [fn |-> fn, ok |-> ok]

\* The external calls get_resources_by_type makes, in order.
RECURSIVE ResolveCalls(_)
ResolveCalls(hits) ==
    IF hits = <<>> THEN <<>>
    ELSE (IF IsSome(Head(hits).url)
          THEN <<Call("resolve", Head(hits).resolved.ok)>> ELSE <<>>)
             \o ResolveCalls(Tail(hits))

SearchCalls(search) ==
    <<Call("search", search.ok)>>
        \o (IF search.ok THEN ResolveCalls(search.val) ELSE <<>>)

(***************************************************************************)
(* core/graph_builder.rs                                                   *)
(***************************************************************************)
\* NameKey that takes the url of the document.
UrlKey(sd) == IF IsSome(sd.url) THEN Unwrap(sd.url) ELSE "unknown"

\* The key categorize_structures files a document under.
NameKey(sd) == IF IsSome(sd.name) THEN Unwrap(sd.name) ELSE "unknown"

\* CategorizeFrom that leaves the loop at the first unknown or missing kind.
RECURSIVE CategorizeUntilUnknown(_, _)
CategorizeUntilUnknown(structure_defs, acc) ==
    IF structure_defs = <<>> THEN acc
    ELSE LET sd == Head(structure_defs)
             name == NameKey(sd)
             kind == sd.kind
         IN  IF kind = Some("resource")
             THEN CategorizeUntilUnknown(Tail(structure_defs),
                      [acc EXCEPT !.resources = MapPut(acc.resources, name, sd)])
             ELSE IF kind = Some("complex-type")
             THEN CategorizeUntilUnknown(Tail(structure_defs),
                      [acc EXCEPT !.datatypes = MapPut(acc.datatypes, name, sd)])
             ELSE IF kind = Some("primitive-type")
             THEN CategorizeUntilUnknown(Tail(structure_defs),
                      [acc EXCEPT !.primitives = MapPut(acc.primitives, name, sd)])
             ELSE [acc EXCEPT !.warned = Append(acc.warned, name)]

\* categorize_structures: the loop over the batch; `acc` holds the three
\* maps and the names a warning was emitted for.
RECURSIVE CategorizeFrom(_, _)
CategorizeFrom(structure_defs, acc) ==
    IF structure_defs = <<>> THEN acc
    ELSE LET sd == Head(structure_defs)
             name == NameKey(sd)
             kind == sd.kind
         IN  CategorizeFrom(Tail(structure_defs),
                 IF kind = Some("resource")
                 THEN [acc EXCEPT !.resources = MapPut(acc.resources, name, sd)]
                 ELSE IF kind = Some("complex-type")
                 THEN [acc EXCEPT !.datatypes = MapPut(acc.datatypes, name, sd)]
                 ELSE IF kind = Some("primitive-type")
                 THEN [acc EXCEPT !.primitives = MapPut(acc.primitives, name, sd)]
                 ELSE [acc EXCEPT !.warned = Append(acc.warned, name)])

categorize_structures(structure_defs) ==
    Ok(CategorizeFrom(structure_defs,
           [resources |-> EmptyMap, datatypes |-> EmptyMap,
            primitives |-> EmptyMap, warned |-> <<>>]))

process_primitive(sd_json) ==
    LET parsed == Parse(sd_json)
    IN  IF ~parsed.ok THEN parsed
        ELSE IF parsed.val.kind # "PrimitiveType" THEN Err("is not a primitive type")
        ELSE Ok([name |-> parsed.val.name,
                 base |-> parsed.val.base_definition,
                 pattern |-> None,
                 short |-> "FHIR primitive type " \o parsed.val.name,
                 url |-> parsed.val.url])

process_datatype(sd_json) ==
    LET parsed == Parse(sd_json)
    IN  IF ~parsed.ok THEN parsed ELSE to_datatype(parsed.val)

process_resource(sd_json) ==
    LET parsed == Parse(sd_json)
    IN  IF ~parsed.ok THEN parsed ELSE to_resource_type(parsed.val)

\* parse() stores what it parsed under its url in the parser's cache.
ParserCacheAfter(cache, sd_json) ==
    IF Parse(sd_json).ok
    THEN MapPut(cache, Parse(sd_json).val.url, Parse(sd_json).val)
    ELSE cache

SearchParamTypeOf(param_type) ==
    CASE param_type = "number" -> Ok("Number")
      [] param_type = "date" -> Ok("Date")
      [] param_type = "string" -> Ok("String")
      [] param_type = "token" -> Ok("Token")
      [] param_type = "reference" -> Ok("Reference")
      [] param_type = "composite" -> Ok("Composite")
      [] param_type = "quantity" -> Ok("Quantity")
      [] param_type = "uri" -> Ok("Uri")
      [] param_type = "special" -> Ok("Special")
      [] OTHER -> Err("Unknown search parameter type")

parse_search_parameter(content) ==
    IF content.code = None THEN Err("SearchParameter missing code")
    ELSE IF content.type = None THEN Err("SearchParameter missing type")
    ELSE IF ~SearchParamTypeOf(Unwrap(content.type)).ok
         THEN Err("Unknown search parameter type")
    ELSE LET param_type == SearchParamTypeOf(Unwrap(content.type)).val
         IN  Ok([code |-> Unwrap(content.code),
                 param_type |-> param_type,
                 description |-> IF IsSome(content.description)
                                 THEN Unwrap(content.description) ELSE "",
                 expression |-> content.expression,
                 target_types |-> IF param_type = "Reference" /\ IsSome(content.target)
                                  THEN Unwrap(content.target) ELSE <<>>])

\* The base resource types of a SearchParameter, [] when there is no array.
BasesOf(content) == IF IsSome(content.base) THEN Unwrap(content.base) ELSE <<>>

\* PushToBases that stops after the first base.
PushToFirstBase(params_by_resource, bases, param) ==
    IF bases = <<>> THEN params_by_resource
    ELSE LET base == Head(bases)
             old == IF base \in DOMAIN params_by_resource
                    THEN params_by_resource[base] ELSE <<>>
         IN  MapPut(params_by_resource, base, Append(old, param))

\* params_by_resource.entry(base).or_default().push(param) for each base.
RECURSIVE PushToBases(_, _, _)
PushToBases(params_by_resource, bases, param) ==
    IF bases = <<>> THEN params_by_resource
    ELSE LET base == Head(bases)
             old == IF base \in DOMAIN params_by_resource
                    THEN params_by_resource[base] ELSE <<>>
         IN  PushToBases(MapPut(params_by_resource, base, Append(old, param)),
                         Tail(bases), param)

\* The grouping loop of add_search_parameters.
RECURSIVE GroupFrom(_, _)
GroupFrom(search_params, params_by_resource) ==
    IF search_params = <<>> THEN params_by_resource
    ELSE LET content == Head(search_params)
             param == parse_search_parameter(content)
         IN  GroupFrom(Tail(search_params),
                 IF param.ok
                 THEN PushToBases(params_by_resource, BasesOf(content), param.val)
                 ELSE params_by_resource)

\* The attaching loop of add_search_parameters.
AttachParams(resources, params_by_resource) ==
    [i \in 1..Len(resources) |->
        IF resources[i].k \in DOMAIN params_by_resource
        THEN [resources[i] EXCEPT !.v.search_parameters = params_by_resource[resources[i].k]]
        ELSE resources[i]]

\* add_search_parameters that treats a failed search as no parameters.
add_search_parameters_lenient(g, search) ==
    IF ~search.ok THEN Ok(g)
    ELSE Ok([g EXCEPT !.resources =
                 AttachParams(g.resources, GroupFrom(ResolveHits(search.val), EmptyMap))])

add_search_parameters(g, search) ==
    LET search_params == get_resources_by_type(search)
    IN  IF ~search_params.ok THEN search_params
        ELSE Ok([g EXCEPT !.resources =
                     AttachParams(g.resources, GroupFrom(search_params.val, EmptyMap))])

get_installed_packages(listed) ==
    IF listed.ok THEN listed ELSE Err("Failed to list packages")

(***************************************************************************)
(* Inputs: the documents the external client can hand to one build.        *)
(***************************************************************************)
TypeObj(code, targetProfile) == [code |-> code, targetProfile |-> targetProfile]
Elem(path, min, max, type) == [path |-> path, min |-> min, max |-> max, type |-> type]
Container(element) == [element |-> element]
SDJson(resourceType, url, name, kind, snapshot, differential) ==
    [resourceType |-> resourceType, url |-> url, name |-> name, kind |-> kind,
     baseDefinition |-> None, abstract |-> None,
     snapshot |-> snapshot, differential |-> differential]
SPJson(code, type, base, target) ==
    [code |-> code, type |-> type, base |-> base, target |-> target,
     description |-> None, expression |-> None]

\* A snapshot with the root element and one string element `id`.
SnapshotOf(name) ==
    Some(Container(Some(<<Elem(Some(<<Seg(name)>>), None, None, None),
                          Elem(Some(<<Seg(name), Seg("id")>>), Some(U64(0, 0)), Some("1"),
                               Some(<<TypeObj(Some("string"), None)>>))>>)))

SD(url, name, kind, snapshot) ==
    SDJson(Some("StructureDefinition"), url, name, kind, snapshot, None)

StringSD == SD(Some("http://hl7.org/fhir/StructureDefinition/string"), Some("string"),
               Some("primitive-type"), SnapshotOf("string"))
HumanNameSD == SD(Some("http://hl7.org/fhir/StructureDefinition/HumanName"),
                  Some("HumanName"), Some("complex-type"), SnapshotOf("HumanName"))
PatientSD == SD(Some("http://hl7.org/fhir/StructureDefinition/Patient"), Some("Patient"),
                Some("resource"), SnapshotOf("Patient"))
\* a second document named Patient, with neither snapshot nor differential
BrokenPatientSD == SD(Some("http://example.org/StructureDefinition/Patient"),
                      Some("Patient"), Some("resource"), None)
ObservationSD == SD(Some("http://hl7.org/fhir/StructureDefinition/Observation"),
                    Some("Observation"), Some("resource"), SnapshotOf("Observation"))
UnknownKindSD == SD(Some("http://example.org/StructureDefinition/Odd"), Some("Odd"),
                    Some("unknown-type"), SnapshotOf("Odd"))
NoKindSD == SD(Some("http://example.org/StructureDefinition/Bare"), Some("Bare"),
               None, SnapshotOf("Bare"))
NoNameSD == SD(Some("http://example.org/StructureDefinition/anonymous"), None,
               Some("complex-type"), SnapshotOf("unknown"))
LogicalSD == SD(Some("http://example.org/StructureDefinition/Model"), Some("Model"),
                Some("logical"), SnapshotOf("Model"))

\* a third document named Patient, which converts
OtherPatientSD == SD(Some("http://example.org/StructureDefinition/OtherPatient"),
                     Some("Patient"), Some("resource"), SnapshotOf("Patient"))
\* a document that is named "unknown"
NamedUnknownSD == SD(Some("http://example.org/StructureDefinition/unknown"),
                     Some("unknown"), Some("complex-type"), SnapshotOf("unknown"))

\* The hits of a search whose documents share names or have none.
NamedSDHits ==
    {Hit(Some("url"), Ok(d)) :
        d \in {StringSD, PatientSD, BrokenPatientSD, OtherPatientSD, NoNameSD,
               NamedUnknownSD}}

\* The hits of a StructureDefinition search of a build, each one resolved.
BuildSDHits ==
    {Hit(Some("url"), Ok(d)) :
        d \in {StringSD, HumanNameSD, PatientSD, BrokenPatientSD, ObservationSD,
               UnknownKindSD}}

NameSP == SPJson(Some("name"), Some("string"), Some(<<"Patient", "Observation">>), None)
SubjectSP == SPJson(Some("subject"), Some("reference"),
                    Some(<<"Observation", "Observation">>), Some(<<"Patient">>))
NoCodeSP == SPJson(None, Some("token"), Some(<<"Patient">>), None)
NoTypeSP == SPJson(Some("date"), None, Some(<<"Patient">>), None)

\* The hits of a SearchParameter search of a build, one of them a hit
\* whose url the client fails to resolve.
BuildSPHits ==
    {Hit(Some("url"), Ok(d)) : d \in {NameSP, SubjectSP, NoCodeSP, NoTypeSP}}
    \cup {Hit(Some("url"), Err("not found"))}

SearchOutcomes(hits, n) == {Err("search failed")} \cup {Ok(h) : h \in DistinctSeqs(hits, n)}

PackageLists == {Err("io"), Ok(<<"hl7.fhir.r4.core#4.0.1">>)}

(***************************************************************************)
(* A public function called on its own: its arguments and what it returns. *)
(***************************************************************************)
VARIABLES
    input,          \* the arguments of the call
    output          \* the value returned, None before the call

callVars == <<input, output>>

NoCall == input = None /\ output = None

(***************************************************************************)
(* State of one SchemaResolver shared by concurrent callers.               *)
(***************************************************************************)
VARIABLES
    cache,               \* SchemaResolver::cache: canonical url -> document
    resolver_primitives, \* SchemaResolver::primitives: type code -> bool
    cache_writer,        \* the task holding the write lock of `cache`, 0 if none
    cache_readers,       \* the tasks holding a read lock of `cache` across an await
    task,                \* each caller's running operation and its locals
    started,             \* the operations started so far
    returned,            \* history: the documents resolve_type returned for a
                         \* url since clear_cache was last called
    stored,              \* history: the booleans stored for a code since
                         \* clear_cache was last called
    ever_stored,         \* history: the booleans ever stored for a code
    cleared              \* history: clear_cache has been called

resolverVars == <<cache, resolver_primitives, cache_writer, cache_readers, task,
                  started, returned, stored, ever_stored, cleared>>

(***************************************************************************)
(* State of one TypeGraphBuilder call: build() or build_from_package().    *)
(***************************************************************************)
VARIABLES
    pc,             \* where the call is
    entry,          \* "build" or "build_from_package": the function called
    calls,          \* the calls made to the external client, in order
    structure_defs, \* the documents load_all_structure_definitions returned
    resources,      \* what the loop over `resources` has not reached yet
    datatypes,      \* what the loop over `datatypes` has not reached yet
    primitives,     \* what the loop over `primitives` has not reached yet
    search_defs,    \* the SearchParameter contents the second pass read
    graph,          \* the local `graph` of build()
    parser_cache,   \* StructureDefinitionParser::cache
    warnings,       \* the names warn! was called for
    processed,      \* the kind of each document handed to process_*, in order
    build_result,   \* what build() returned, None while it runs
    result          \* what the caller got, None while the call runs

buildVars == <<pc, entry, calls, structure_defs, resources, datatypes, primitives,
               search_defs, graph, parser_cache, warnings, processed, build_result,
               result>>

\* A builder no call has touched: everything but pc and structure_defs.
Untouched ==
    /\ entry = "none"
    /\ calls = <<>>
    /\ resources = EmptyMap
    /\ datatypes = EmptyMap
    /\ primitives = EmptyMap
    /\ search_defs = <<>>
    /\ graph = NewTypeGraph
    /\ parser_cache = EmptyMap
    /\ warnings = <<>>
    /\ processed = <<>>
    /\ build_result = None
    /\ result = None

BuildInit ==
    /\ pc = "idle"
    /\ structure_defs = <<>>
    /\ Untouched

\* build() returns: a caller of build() gets the value, build_from_package
\* passes it on in BuildFromPackageReturn.
BuildReturns(value) ==
    /\ build_result' = Some(value)
    /\ IF entry = "build"
       THEN pc' = "done" /\ result' = Some(value)
       ELSE pc' = "delegated" /\ result' = result

CallBuild ==
    /\ pc = "idle"
    /\ pc' = "load"
    /\ entry' = "build"
    /\ UNCHANGED <<calls, structure_defs, resources, datatypes, primitives, search_defs,
                   graph, parser_cache, warnings, processed, build_result, result>>
    /\ UNCHANGED <<resolverVars, callVars>>

\* CallBuildFromPackage without the `?` on install_package.
CallBuildFromPackageUnchecked ==
    /\ pc = "idle"
    /\ entry' = "build_from_package"
    /\ \E installed \in {Ok("installed"), Err("network")} :
          calls' = Append(calls, Call("install_package", installed.ok))
    /\ pc' = "load"
    /\ UNCHANGED <<structure_defs, resources, datatypes, primitives, search_defs, graph,
                   parser_cache, warnings, processed, build_result, result>>
    /\ UNCHANGED <<resolverVars, callVars>>

\* build_from_package up to its call of build(): install_package first.
CallBuildFromPackage ==
    /\ pc = "idle"
    /\ entry' = "build_from_package"
    /\ \E installed \in {Ok("installed"), Err("network")} :
          /\ calls' = Append(calls, Call("install_package", installed.ok))
          /\ IF installed.ok
             THEN pc' = "load" /\ result' = result
             ELSE pc' = "done" /\ result' = Some(Err("Failed to install package"))
    /\ UNCHANGED <<structure_defs, resources, datatypes, primitives, search_defs, graph,
                   parser_cache, warnings, processed, build_result>>
    /\ UNCHANGED <<resolverVars, callVars>>

BuildFromPackageReturn ==
    /\ pc = "delegated"
    /\ pc' = "done"
    /\ result' = build_result
    /\ UNCHANGED <<entry, calls, structure_defs, resources, datatypes, primitives,
                   search_defs, graph, parser_cache, warnings, processed, build_result>>
    /\ UNCHANGED <<resolverVars, callVars>>

\* build() from its start to the first loop: load, then categorize.
LoadAndCategorizeFrom(hits) ==
    /\ pc = "load"
    /\ \E search \in SearchOutcomes(hits, MaxDocs) :
          LET loaded == get_resources_by_type(search)
          IN  /\ calls' = calls \o SearchCalls(search)
              /\ IF ~loaded.ok
                 THEN /\ BuildReturns(loaded)
                      /\ UNCHANGED <<structure_defs, resources, datatypes, primitives,
                                     warnings>>
                 ELSE LET buckets == categorize_structures(loaded.val).val
                      IN  /\ structure_defs' = loaded.val
                          /\ resources' = buckets.resources
                          /\ datatypes' = buckets.datatypes
                          /\ primitives' = buckets.primitives
                          /\ warnings' = warnings \o buckets.warned
                          /\ pc' = "primitives"
                          /\ UNCHANGED <<build_result, result>>
    /\ UNCHANGED <<entry, search_defs, graph, parser_cache, processed>>
    /\ UNCHANGED <<resolverVars, callVars>>

LoadAndCategorize == LoadAndCategorizeFrom(BuildSDHits)

\* PhaseAfter with the loops over datatypes and resources exchanged.
PhaseAfterResourcesFirst(phase) ==
    CASE phase = "primitives" -> "resources"
      [] phase = "resources" -> "datatypes"
      [] phase = "datatypes" -> "search_params"

\* The loop that follows the loop at `phase`.
PhaseAfter(phase) ==
    CASE phase = "primitives" -> "datatypes"
      [] phase = "datatypes" -> "resources"
      [] phase = "resources" -> "search_params"

\* One iteration of `for (name, sd_json) in primitives`; a HashMap yields
\* its entries in any order.
ProcessPrimitive ==
    /\ pc = "primitives"
    /\ \E name \in DOMAIN primitives :
          LET primitive == process_primitive(primitives[name])
          IN  /\ graph' = IF primitive.ok
                          THEN add_primitive(graph, name, primitive.val) ELSE graph
              /\ parser_cache' = ParserCacheAfter(parser_cache, primitives[name])
              /\ primitives' = MapRemove(primitives, name)
              /\ processed' = Append(processed, "primitive-type")
    /\ UNCHANGED <<pc, entry, calls, structure_defs, resources, datatypes, search_defs,
                   warnings, build_result, result>>
    /\ UNCHANGED <<resolverVars, callVars>>

ProcessDatatype ==
    /\ pc = "datatypes"
    /\ \E name \in DOMAIN datatypes :
          LET datatype == process_datatype(datatypes[name])
          IN  /\ graph' = IF datatype.ok
                          THEN add_datatype(graph, name, datatype.val) ELSE graph
              /\ parser_cache' = ParserCacheAfter(parser_cache, datatypes[name])
              /\ datatypes' = MapRemove(datatypes, name)
              /\ processed' = Append(processed, "complex-type")
    /\ UNCHANGED <<pc, entry, calls, structure_defs, resources, primitives, search_defs,
                   warnings, build_result, result>>
    /\ UNCHANGED <<resolverVars, callVars>>

\* ProcessResource with `?` on the conversion: a failure ends build().
ProcessResourceOrAbort ==
    /\ pc = "resources"
    /\ \E name \in DOMAIN resources :
          LET resource == process_resource(resources[name])
          IN  /\ parser_cache' = ParserCacheAfter(parser_cache, resources[name])
              /\ resources' = MapRemove(resources, name)
              /\ processed' = Append(processed, "resource")
              /\ IF resource.ok
                 THEN /\ graph' = add_resource(graph, name, resource.val)
                      /\ UNCHANGED <<pc, build_result, result>>
                 ELSE graph' = graph /\ BuildReturns(resource)
    /\ UNCHANGED <<entry, calls, structure_defs, datatypes, primitives, search_defs,
                   warnings>>
    /\ UNCHANGED <<resolverVars, callVars>>

ProcessResource ==
    /\ pc = "resources"
    /\ \E name \in DOMAIN resources :
          LET resource == process_resource(resources[name])
          IN  /\ graph' = IF resource.ok
                          THEN add_resource(graph, name, resource.val) ELSE graph
              /\ parser_cache' = ParserCacheAfter(parser_cache, resources[name])
              /\ resources' = MapRemove(resources, name)
              /\ processed' = Append(processed, "resource")
    /\ UNCHANGED <<pc, entry, calls, structure_defs, datatypes, primitives, search_defs,
                   warnings, build_result, result>>
    /\ UNCHANGED <<resolverVars, callVars>>

\* The map being iterated at `phase`.
Pending(phase) ==
    CASE phase = "primitives" -> primitives
      [] phase = "datatypes" -> datatypes
      [] phase = "resources" -> resources

\* A loop ends when its map is exhausted; the next one starts.
LoopEnds ==
    /\ pc \in {"primitives", "datatypes", "resources"}
    /\ DOMAIN Pending(pc) = {}
    /\ pc' = PhaseAfter(pc)
    /\ UNCHANGED <<entry, calls, structure_defs, resources, datatypes, primitives,
                   search_defs, graph, parser_cache, warnings, processed, build_result,
                   result>>
    /\ UNCHANGED <<resolverVars, callVars>>

\* self.add_search_parameters(&mut graph).await?
AddSearchParameters ==
    /\ pc = "search_params"
    /\ \E search \in SearchOutcomes(BuildSPHits, MaxParams) :
          LET added == add_search_parameters(graph, search)
          IN  /\ calls' = calls \o SearchCalls(search)
              /\ processed' = Append(processed, "search-parameters")
              /\ IF ~added.ok
                 THEN BuildReturns(added) /\ UNCHANGED <<graph, search_defs>>
                 ELSE /\ graph' = added.val
                      /\ search_defs' = IF search.ok THEN ResolveHits(search.val)
                                         ELSE <<>>
                      /\ pc' = "metadata"
                      /\ UNCHANGED <<build_result, result>>
    /\ UNCHANGED <<entry, structure_defs, resources, datatypes, primitives, parser_cache,
                   warnings>>
    /\ UNCHANGED <<resolverVars, callVars>>

\* graph.metadata.source_packages = self.get_installed_packages().await?
\* and the return of Ok(graph).
UpdateMetadata ==
    /\ pc = "metadata"
    /\ \E listed \in PackageLists :
          LET packages == get_installed_packages(listed)
          IN  /\ calls' = Append(calls, Call("list_packages", listed.ok))
              /\ IF ~packages.ok
                 THEN BuildReturns(packages) /\ graph' = graph
                 ELSE /\ graph' = [graph EXCEPT !.source_packages = packages.val]
                      /\ BuildReturns(Ok(graph'))
    /\ UNCHANGED <<entry, structure_defs, resources, datatypes, primitives, search_defs,
                   parser_cache, warnings, processed>>
    /\ UNCHANGED <<resolverVars, callVars>>

BuildNext ==
    \/ CallBuild
    \/ CallBuildFromPackage
    \/ BuildFromPackageReturn
    \/ LoadAndCategorize
    \/ ProcessPrimitive
    \/ ProcessDatatype
    \/ ProcessResource
    \/ LoopEnds
    \/ AddSearchParameters
    \/ UpdateMetadata

vars == <<buildVars, resolverVars, callVars>>

(***************************************************************************)
(* SchemaResolver used by concurrent tasks.  A step of a task runs from    *)
(* one await that can suspend it to the next one.  The lock of             *)
(* `primitives` is never held across such an await (clear_cache and        *)
(* cache_stats take it last and drop it on return), so only the lock of    *)
(* `cache` has state of its own.                                           *)
(***************************************************************************)
NumCallers == 2
MaxCalls == 3

Tasks == 1..NumCallers

\* The type codes is_primitive_type is asked about, and the canonical urls
\* resolve_type is asked for: those of the codes and a profile's.
Codes == {"string"}
CanonicalUrlOf(type_code) == "http://hl7.org/fhir/StructureDefinition/" \o type_code
Urls == {CanonicalUrlOf(code) : code \in Codes} \cup {"http://example.org/fhir/vitals"}

\* What manager.resolve can answer: the canonical manager is outside this
\* repository, so any document or an error, call by call.
ManagerDocs == {StringSD, NoKindSD}
ManagerOutcomes == {Err("not found")} \cup {Ok(doc) : doc \in ManagerDocs}

IdleTask ==
    [pc |-> "idle", op |-> "none", arg |-> "", canonical_url |-> "",
     content |-> None, resolved |-> None, ret |-> None, hit |-> FALSE,
     known |-> FALSE, ncalls |-> 0, expect |-> {}, raced |-> FALSE, pexpect |-> {},
     praced |-> FALSE, pseen |-> {}, quiet |-> FALSE, after_none |-> FALSE,
     started_at |-> 0]

ResolverInit ==
    /\ cache = EmptyMap
    /\ resolver_primitives = EmptyMap
    /\ cache_writer = 0
    /\ cache_readers = {}
    /\ task = [t \in Tasks |-> IdleTask]
    /\ started = 0
    /\ returned = [url \in Urls |-> {}]
    /\ stored = [code \in Codes |-> {}]
    /\ ever_stored = [code \in Codes |-> {}]
    /\ cleared = FALSE

\* self.cache.read().await succeeds when no task holds the write lock,
\* self.cache.write().await when no task holds the lock at all.
CanReadCache == cache_writer = 0
CanWriteCache == cache_writer = 0 /\ cache_readers = {}

\* A task calls the resolver when it is not in a call of it; the value of
\* its last call stays in its record until then.
CanStart(t) == task[t].pc \in {"idle", "done"} /\ started < MaxCalls

\* History: a document was returned for `canonical_url` since clear_cache was
\* last called, and a resolve_type of it has missed and not yet stored.
MissInFlight(canonical_url) ==
    \E other \in Tasks :
        /\ returned[canonical_url] # {}
        /\ task[other].canonical_url = canonical_url
        /\ task[other].pc \in {"resolve_type:resolve", "resolve_type:write"}

\* History: a boolean was stored for `type_code` since clear_cache was last
\* called, and an is_primitive_type of it has missed and not yet stored.
PrimitiveMissInFlight(type_code) ==
    \E other \in Tasks :
        /\ stored[type_code] # {}
        /\ task[other].op = "is_primitive_type"
        /\ task[other].arg = type_code
        /\ task[other].pc \in {"resolve_type:read", "resolve_type:resolve",
                               "resolve_type:write", "is_primitive_type:write"}

\* History: a resolve_type of `canonical_url` has returned None, and the task
\* it returned to has not called the resolver since.
FailedFor(canonical_url) ==
    \E other \in Tasks :
        /\ task[other].pc = "done"
        /\ task[other].canonical_url = canonical_url
        /\ task[other].resolved = Some(Ok(None))

\* A call of resolve_type; with `noting`, the history after_none is kept.
CallResolveTypeNoting(t, noting) ==
    /\ CanStart(t)
    /\ \E canonical_url \in Urls :
          task' = [task EXCEPT ![t] =
                      [IdleTask EXCEPT !.pc = "resolve_type:read",
                                       !.op = "resolve_type",
                                       !.arg = canonical_url,
                                       !.canonical_url = canonical_url,
                                       !.expect = returned[canonical_url],
                                       !.raced = MissInFlight(canonical_url),
                                       !.after_none =
                                           noting /\ FailedFor(canonical_url)]]
    /\ started' = started + 1
    /\ UNCHANGED <<cache, resolver_primitives, cache_writer, cache_readers, returned,
                   stored, ever_stored, cleared>>
    /\ UNCHANGED <<buildVars, callVars>>

CallResolveType(t) == CallResolveTypeNoting(t, FALSE)

\* A call of is_primitive_type; with `noting`, the history after_none is kept.
CallIsPrimitiveTypeNoting(t, noting) ==
    /\ CanStart(t)
    /\ \E type_code \in Codes :
          task' = [task EXCEPT ![t] =
                      [IdleTask EXCEPT !.pc = "is_primitive_type:read",
                                       !.op = "is_primitive_type",
                                       !.arg = type_code,
                                       !.pexpect = stored[type_code],
                                       !.praced = PrimitiveMissInFlight(type_code),
                                       !.pseen = ever_stored[type_code],
                                       !.after_none =
                                           /\ noting
                                           /\ FailedFor(CanonicalUrlOf(type_code))]]
    /\ started' = started + 1
    /\ UNCHANGED <<cache, resolver_primitives, cache_writer, cache_readers, returned,
                   stored, ever_stored, cleared>>
    /\ UNCHANGED <<buildVars, callVars>>

CallIsPrimitiveType(t) == CallIsPrimitiveTypeNoting(t, FALSE)

\* The histories "since clear_cache was last called" start again, for the
\* operations in progress too.
Forget(tasks) == [t \in Tasks |-> [tasks[t] EXCEPT !.expect = {}, !.pexpect = {}]]

CallClearCache(t) ==
    /\ CanStart(t)
    /\ task' = [Forget(task) EXCEPT ![t] =
                   [IdleTask EXCEPT !.pc = "clear_cache:cache", !.op = "clear_cache"]]
    /\ started' = started + 1
    /\ returned' = [url \in Urls |-> {}]
    /\ stored' = [code \in Codes |-> {}]
    /\ cleared' = TRUE
    /\ UNCHANGED <<cache, resolver_primitives, cache_writer, cache_readers, ever_stored>>
    /\ UNCHANGED <<buildVars, callVars>>

\* History: clear_cache has returned and no operation is running.
QuietAfterClear ==
    /\ \E other \in Tasks : task[other].pc = "done" /\ task[other].op = "clear_cache"
    /\ \A other \in Tasks : task[other].pc \in {"idle", "done"}

CallCacheStats(t) ==
    /\ CanStart(t)
    /\ task' = [task EXCEPT ![t] =
                   [IdleTask EXCEPT !.pc = "cache_stats:cache", !.op = "cache_stats",
                                    !.quiet = QuietAfterClear]]
    /\ started' = started + 1
    /\ UNCHANGED <<cache, resolver_primitives, cache_writer, cache_readers, returned,
                   stored, ever_stored, cleared>>
    /\ UNCHANGED <<buildVars, callVars>>

\* resolve_type returns `value` to its caller: to the task itself, or to
\* is_primitive_type, which goes on with `if let Some(sd) = ...?`.
ResolveTypeReturns(tk, value) ==
    LET back == [tk EXCEPT !.resolved = Some(value)]
    IN  IF tk.op = "resolve_type" \/ ~value.ok
        THEN [back EXCEPT !.pc = "done", !.ret = Some(value)]
        ELSE IF IsSome(value.val)
        THEN [back EXCEPT !.pc = "is_primitive_type:write"]
        ELSE [back EXCEPT !.pc = "done", !.ret = Some(Ok(FALSE))]

Remember(history, key, value) ==
    IF value.ok /\ IsSome(value.val)
    THEN [history EXCEPT ![key] = @ \cup {Unwrap(value.val)}]
    ELSE history

\* The cache check of resolve_type, under the read lock.
ResolveTypeRead(t) ==
    /\ task[t].pc = "resolve_type:read"
    /\ CanReadCache
    /\ LET canonical_url == task[t].canonical_url
       IN  IF canonical_url \in DOMAIN cache
           THEN LET value == Ok(Some(cache[canonical_url]))
                IN  /\ task' = [task EXCEPT ![t] =
                                   ResolveTypeReturns([@ EXCEPT !.hit = TRUE], value)]
                    /\ returned' = Remember(returned, canonical_url, value)
           ELSE /\ task' = [task EXCEPT ![t].pc = "resolve_type:resolve"]
                /\ returned' = returned
    /\ UNCHANGED <<cache, resolver_primitives, cache_writer, cache_readers, started,
                   stored, ever_stored, cleared>>
    /\ UNCHANGED <<buildVars, callVars>>

\* ResolveTypeResolve with the client's error handed to the caller.
ResolveTypeResolvePropagating(t) ==
    /\ task[t].pc = "resolve_type:resolve"
    /\ \E outcome \in ManagerOutcomes :
          task' = [task EXCEPT ![t] =
                      IF outcome.ok
                      THEN [@ EXCEPT !.ncalls = @ + 1,
                                     !.content = Some(outcome.val),
                                     !.pc = "resolve_type:write"]
                      ELSE ResolveTypeReturns([@ EXCEPT !.ncalls = @ + 1], outcome)]
    /\ UNCHANGED <<cache, resolver_primitives, cache_writer, cache_readers, started,
                   returned, stored, ever_stored, cleared>>
    /\ UNCHANGED <<buildVars, callVars>>

\* ResolveTypeResolve with is_primitive_type storing its answer for a
\* document that was not found.
ResolveTypeResolveStoringNotFound(t) ==
    /\ task[t].pc = "resolve_type:resolve"
    /\ \E outcome \in ManagerOutcomes :
          /\ task' = [task EXCEPT ![t] =
                         IF outcome.ok
                         THEN [@ EXCEPT !.ncalls = @ + 1,
                                        !.content = Some(outcome.val),
                                        !.pc = "resolve_type:write"]
                         ELSE ResolveTypeReturns([@ EXCEPT !.ncalls = @ + 1], Ok(None))]
          /\ resolver_primitives' =
                 IF ~outcome.ok /\ task[t].op = "is_primitive_type"
                 THEN MapPut(resolver_primitives, task[t].arg, FALSE)
                 ELSE resolver_primitives
    /\ UNCHANGED <<cache, cache_writer, cache_readers, started, returned, stored,
                   ever_stored, cleared>>
    /\ UNCHANGED <<buildVars, callVars>>

\* match self.manager.resolve(canonical_url).await, no lock held.
ResolveTypeResolve(t) ==
    /\ task[t].pc = "resolve_type:resolve"
    /\ \E outcome \in ManagerOutcomes :
          task' = [task EXCEPT ![t] =
                      IF outcome.ok
                      THEN [@ EXCEPT !.ncalls = @ + 1,
                                     !.content = Some(outcome.val),
                                     !.pc = "resolve_type:write"]
                      ELSE ResolveTypeReturns([@ EXCEPT !.ncalls = @ + 1], Ok(None))]
    /\ UNCHANGED <<cache, resolver_primitives, cache_writer, cache_readers, started,
                   returned, stored, ever_stored, cleared>>
    /\ UNCHANGED <<buildVars, callVars>>

\* ResolveTypeWrite as `entry(url).or_insert(content)`: the first document
\* stored stays, and is the one returned.
ResolveTypeWriteKeepingFirst(t) ==
    /\ task[t].pc = "resolve_type:write"
    /\ CanWriteCache
    /\ LET canonical_url == task[t].canonical_url
           kept == IF canonical_url \in DOMAIN cache THEN cache[canonical_url]
                   ELSE Unwrap(task[t].content)
           value == Ok(Some(kept))
       IN  /\ cache' = MapPut(cache, canonical_url, kept)
           /\ task' = [task EXCEPT ![t] = ResolveTypeReturns(@, value)]
           /\ returned' = Remember(returned, canonical_url, value)
    /\ UNCHANGED <<resolver_primitives, cache_writer, cache_readers, started, stored,
                   ever_stored, cleared>>
    /\ UNCHANGED <<buildVars, callVars>>

\* ResolveTypeWrite without the insert.
ResolveTypeWriteNothing(t) ==
    /\ task[t].pc = "resolve_type:write"
    /\ CanWriteCache
    /\ LET canonical_url == task[t].canonical_url
           value == Ok(Some(Unwrap(task[t].content)))
       IN  /\ cache' = cache
           /\ task' = [task EXCEPT ![t] = ResolveTypeReturns(@, value)]
           /\ returned' = Remember(returned, canonical_url, value)
    /\ UNCHANGED <<resolver_primitives, cache_writer, cache_readers, started, stored,
                   ever_stored, cleared>>
    /\ UNCHANGED <<buildVars, callVars>>

\* The insert under the write lock, and Ok(Some(content)).
ResolveTypeWrite(t) ==
    /\ task[t].pc = "resolve_type:write"
    /\ CanWriteCache
    /\ LET canonical_url == task[t].canonical_url
           value == Ok(Some(Unwrap(task[t].content)))
       IN  /\ cache' = MapPut(cache, canonical_url, Unwrap(task[t].content))
           /\ task' = [task EXCEPT ![t] = ResolveTypeReturns(@, value)]
           /\ returned' = Remember(returned, canonical_url, value)
    /\ UNCHANGED <<resolver_primitives, cache_writer, cache_readers, started, stored,
                   ever_stored, cleared>>
    /\ UNCHANGED <<buildVars, callVars>>

\* The cache check of is_primitive_type; on a miss it calls resolve_type.
IsPrimitiveTypeRead(t) ==
    /\ task[t].pc = "is_primitive_type:read"
    /\ LET type_code == task[t].arg
           canonical_url == CanonicalUrlOf(type_code)
       IN  task' = [task EXCEPT ![t] =
                       IF type_code \in DOMAIN resolver_primitives
                       THEN [@ EXCEPT !.known = TRUE,
                                      !.ret = Some(Ok(resolver_primitives[type_code])),
                                      !.pc = "done"]
                       ELSE [@ EXCEPT !.canonical_url = canonical_url,
                                      !.expect = returned[canonical_url],
                                      !.raced = MissInFlight(canonical_url),
                                      !.pc = "resolve_type:read"]]
    /\ UNCHANGED <<cache, resolver_primitives, cache_writer, cache_readers, started,
                   returned, stored, ever_stored, cleared>>
    /\ UNCHANGED <<buildVars, callVars>>

\* sd.get("kind").and_then(|v| v.as_str()).unwrap_or(default)
KindOr(sd, default) == IF IsSome(sd.kind) THEN Unwrap(sd.kind) ELSE default

\* IsPrimitive with a document without kind taken for a primitive.
IsPrimitiveByDefault(sd) == KindOr(sd, "primitive-type") = "primitive-type"

IsPrimitive(sd) == KindOr(sd, "complex-type") = "primitive-type"

\* The insert into `primitives` under its write lock, and Ok(is_prim).
IsPrimitiveTypeWrite(t) ==
    /\ task[t].pc = "is_primitive_type:write"
    /\ LET type_code == task[t].arg
           is_prim == IsPrimitive(Unwrap(Unwrap(task[t].resolved).val))
       IN  /\ resolver_primitives' = MapPut(resolver_primitives, type_code, is_prim)
           /\ stored' = [stored EXCEPT ![type_code] = @ \cup {is_prim}]
           /\ ever_stored' = [ever_stored EXCEPT ![type_code] = @ \cup {is_prim}]
           /\ task' = [task EXCEPT ![t].ret = Some(Ok(is_prim)), ![t].pc = "done"]
    /\ UNCHANGED <<cache, cache_writer, cache_readers, started, returned,
                   cleared>>
    /\ UNCHANGED <<buildVars, callVars>>

\* clear_cache takes the write lock of `cache` and empties it.
ClearCacheCache(t) ==
    /\ task[t].pc = "clear_cache:cache"
    /\ CanWriteCache
    /\ cache' = EmptyMap
    /\ cache_writer' = t
    /\ task' = [Forget(task) EXCEPT ![t].pc = "clear_cache:primitives"]
    /\ returned' = [url \in Urls |-> {}]
    /\ stored' = [code \in Codes |-> {}]
    /\ UNCHANGED <<resolver_primitives, cache_readers, started, ever_stored,
                   cleared>>
    /\ UNCHANGED <<buildVars, callVars>>

\* ClearCachePrimitives without prim_cache.clear().
ClearCacheLeavingPrimitives(t) ==
    /\ task[t].pc = "clear_cache:primitives"
    /\ cache_writer' = 0
    /\ task' = [Forget(task) EXCEPT ![t].pc = "done", ![t].ret = Some(Ok("unit"))]
    /\ returned' = [url \in Urls |-> {}]
    /\ stored' = [code \in Codes |-> {}]
    /\ UNCHANGED <<cache, resolver_primitives, cache_readers, started, ever_stored,
                   cleared>>
    /\ UNCHANGED <<buildVars, callVars>>

\* Still holding it, clear_cache empties `primitives`, and drops both locks;
\* with `noting`, the history started_at is kept: the number of calls made
\* when clear_cache returns.
ClearCachePrimitivesNoting(t, noting) ==
    /\ task[t].pc = "clear_cache:primitives"
    /\ resolver_primitives' = EmptyMap
    /\ cache_writer' = 0
    /\ task' = [Forget(task) EXCEPT ![t].pc = "done", ![t].ret = Some(Ok("unit")),
                                    ![t].started_at = IF noting THEN started ELSE 0]
    /\ returned' = [url \in Urls |-> {}]
    /\ stored' = [code \in Codes |-> {}]
    /\ UNCHANGED <<cache, cache_readers, started, ever_stored, cleared>>
    /\ UNCHANGED <<buildVars, callVars>>

ClearCachePrimitives(t) == ClearCachePrimitivesNoting(t, FALSE)

\* cache_stats takes the read lock of `cache`.
CacheStatsCache(t) ==
    /\ task[t].pc = "cache_stats:cache"
    /\ CanReadCache
    /\ cache_readers' = cache_readers \cup {t}
    /\ task' = [task EXCEPT ![t].pc = "cache_stats:primitives"]
    /\ UNCHANGED <<cache, resolver_primitives, cache_writer, started, returned,
                   stored, ever_stored, cleared>>
    /\ UNCHANGED <<buildVars, callVars>>

\* Then the read lock of `primitives`; it counts both maps and drops both.
CacheStatsPrimitives(t) ==
    /\ task[t].pc = "cache_stats:primitives"
    /\ cache_readers' = cache_readers \ {t}
    /\ task' = [task EXCEPT
                   ![t].ret = Some(Ok([type_cache_size |-> Cardinality(DOMAIN cache),
                                       primitive_cache_size |->
                                           Cardinality(DOMAIN resolver_primitives)])),
                   ![t].pc = "done"]
    /\ UNCHANGED <<cache, resolver_primitives, cache_writer, started, returned,
                   stored, ever_stored, cleared>>
    /\ UNCHANGED <<buildVars, callVars>>

ResolverNext ==
    \E t \in Tasks :
        \/ CallResolveType(t)
        \/ CallIsPrimitiveType(t)
        \/ CallClearCache(t)
        \/ CallCacheStats(t)
        \/ ResolveTypeRead(t)
        \/ ResolveTypeResolve(t)
        \/ ResolveTypeWrite(t)
        \/ IsPrimitiveTypeRead(t)
        \/ IsPrimitiveTypeWrite(t)
        \/ ClearCacheCache(t)
        \/ ClearCachePrimitives(t)
        \/ CacheStatsCache(t)
        \/ CacheStatsPrimitives(t)

Init == BuildInit /\ ResolverInit /\ NoCall
Next == BuildNext
Spec == Init /\ [][Next]_vars

SpecResolver == Init /\ [][ResolverNext]_vars

(***************************************************************************)
(* The operations that fill and empty the caches, with the history of the  *)
(* calls that came after a resolution had failed, and of the calls made    *)
(* when clear_cache returned.                                              *)
(***************************************************************************)
CallResolveTypeAfter(t) == CallResolveTypeNoting(t, TRUE)
CallIsPrimitiveTypeAfter(t) == CallIsPrimitiveTypeNoting(t, TRUE)
ClearCacheReturns(t) == ClearCachePrimitivesNoting(t, TRUE)

FailuresNext ==
    \E t \in Tasks :
        \/ CallResolveTypeAfter(t)
        \/ CallIsPrimitiveTypeAfter(t)
        \/ CallClearCache(t)
        \/ ResolveTypeRead(t)
        \/ ResolveTypeResolve(t)
        \/ ResolveTypeWrite(t)
        \/ IsPrimitiveTypeRead(t)
        \/ IsPrimitiveTypeWrite(t)
        \/ ClearCacheCache(t)
        \/ ClearCacheReturns(t)

SpecFailures == Init /\ [][FailuresNext]_vars

(***************************************************************************)
(* build() on documents that share a name or have none.                    *)
(***************************************************************************)
LoadAndCategorizeNamed == LoadAndCategorizeFrom(NamedSDHits)

NamedNext ==
    \/ CallBuild
    \/ LoadAndCategorizeNamed
    \/ ProcessPrimitive
    \/ ProcessDatatype
    \/ ProcessResource
    \/ LoopEnds
    \/ AddSearchParameters
    \/ UpdateMetadata

SpecNamed == Init /\ [][NamedNext]_vars

(***************************************************************************)
(* categorize_structures called on its own (it is public), on any batch.   *)
(***************************************************************************)
CategorizeDocs ==
    {StringSD, HumanNameSD, PatientSD, BrokenPatientSD, ObservationSD, UnknownKindSD,
     NoKindSD, NoNameSD, LogicalSD}

CategorizeInit ==
    /\ pc = "categorize"
    /\ structure_defs \in DistinctSeqs(CategorizeDocs, MaxBatch)
    /\ Untouched
    /\ ResolverInit
    /\ NoCall

Categorize ==
    /\ pc = "categorize"
    /\ LET categorized == categorize_structures(structure_defs)
       IN  /\ result' = Some(IF categorized.ok THEN Ok("buckets") ELSE categorized)
           /\ resources' = categorized.val.resources
           /\ datatypes' = categorized.val.datatypes
           /\ primitives' = categorized.val.primitives
           /\ warnings' = categorized.val.warned
    /\ pc' = "categorized"
    /\ UNCHANGED <<entry, calls, structure_defs, search_defs, graph, parser_cache,
                   processed, build_result>>
    /\ UNCHANGED <<resolverVars, callVars>>

CategorizeNext == Categorize

SpecCategorize == CategorizeInit /\ [][CategorizeNext]_vars

(***************************************************************************)
(* get_resources_by_type called on its own, with any limit, the external   *)
(* client answering with any list of hits.                                 *)
(***************************************************************************)
MaxHits == 3

\* The query handed to the client: limit.unwrap_or(1000).
QueryOf(resource_type, limit) ==
    [resource_type |-> resource_type,
     limit |-> IF IsSome(limit) THEN Unwrap(limit) ELSE 1000]

\* Hits with a url the client resolves, with one it fails to resolve, and
\* without url.
SearchHits ==
    {Hit(Some("http://hl7.org/fhir/StructureDefinition/Patient"), Ok(PatientSD)),
     Hit(Some("http://hl7.org/fhir/StructureDefinition/string"), Ok(StringSD)),
     Hit(Some("http://example.org/StructureDefinition/gone"), Err("not found")),
     Hit(None, Ok(HumanNameSD)),
     Hit(None, Err("not found"))}

SearchInit ==
    /\ pc = "get_resources_by_type"
    /\ structure_defs = <<>>
    /\ Untouched
    /\ ResolverInit
    /\ input \in {Some([resource_type |-> resource_type, limit |-> limit]) :
                      resource_type \in {"StructureDefinition", "SearchParameter"},
                      limit \in {None, Some(1), Some(MaxHits)}}
    /\ output = None

\* GetResourcesByType with `?` on the resolution of a hit.
GetResourcesByTypeStrict ==
    /\ pc = "get_resources_by_type"
    /\ \E search \in SearchOutcomes(SearchHits, MaxHits) :
          /\ calls' = <<[fn |-> "search",
                         query |-> QueryOf(Unwrap(input).resource_type,
                                           Unwrap(input).limit),
                         answer |-> search]>>
                           \o (IF search.ok THEN ResolveCalls(search.val) ELSE <<>>)
          /\ output' = Some(IF search.ok
                               /\ \E i \in 1..Len(search.val) :
                                      /\ IsSome(search.val[i].url)
                                      /\ ~search.val[i].resolved.ok
                            THEN Err("CanonicalManager")
                            ELSE get_resources_by_type(search))
    /\ pc' = "returned"
    /\ UNCHANGED <<entry, structure_defs, resources, datatypes, primitives, search_defs,
                   graph, parser_cache, warnings, processed, build_result, result, input>>
    /\ UNCHANGED resolverVars

GetResourcesByType ==
    /\ pc = "get_resources_by_type"
    /\ \E search \in SearchOutcomes(SearchHits, MaxHits) :
          /\ calls' = <<[fn |-> "search",
                         query |-> QueryOf(Unwrap(input).resource_type,
                                           Unwrap(input).limit),
                         answer |-> search]>>
                           \o (IF search.ok THEN ResolveCalls(search.val) ELSE <<>>)
          /\ output' = Some(get_resources_by_type(search))
    /\ pc' = "returned"
    /\ UNCHANGED <<entry, structure_defs, resources, datatypes, primitives, search_defs,
                   graph, parser_cache, warnings, processed, build_result, result, input>>
    /\ UNCHANGED resolverVars

SearchNext == GetResourcesByType

SpecSearch == SearchInit /\ [][SearchNext]_vars

(***************************************************************************)
(* StructureDefinitionParser called on its own: parse() on any document,   *)
(* then to_resource_type() or to_datatype() on what it returned.           *)
(***************************************************************************)
MaxElems == 3

SegXX(s) == [stem |-> s, nx |-> 2]

\* A document with every field parse() reads.
FullSDJson(resourceType, url, name, kind, base, abstract, snapshot, differential) ==
    [resourceType |-> resourceType, url |-> url, name |-> name, kind |-> kind,
     baseDefinition |-> base, abstract |-> abstract,
     snapshot |-> snapshot, differential |-> differential]

ParserUrl == "http://example.org/StructureDefinition/T"
ParserBase == "http://hl7.org/fhir/StructureDefinition/DomainResource"

\* What an element can say besides its path: the default, one field at a
\* time the other values of min, max and type, and a min above the max.
DefaultDetail == [min |-> None, max |-> None,
                  type |-> Some(<<TypeObj(Some("string"), None)>>)]

PatientProfile == <<"http:", "", "hl7.org", "fhir", "StructureDefinition", "Patient">>
GroupProfile == <<"http:", "", "hl7.org", "fhir", "StructureDefinition", "Group">>
BareProfile == <<"Device">>

ElementTypeLists ==
    {None,
     Some(<<>>),
     Some(<<TypeObj(Some("HumanName"), None)>>),
     Some(<<TypeObj(Some("Reference"), Some(<<PatientProfile, GroupProfile>>))>>),
     Some(<<TypeObj(Some("Reference"), Some(<<BareProfile>>))>>),
     Some(<<TypeObj(Some("Reference"), None)>>),
     Some(<<TypeObj(Some("Reference"), Some(<<>>))>>),
     Some(<<TypeObj(Some("HumanName"), Some(<<PatientProfile>>))>>),
     Some(<<TypeObj(Some("string"), None), TypeObj(Some("integer"), None)>>),
     Some(<<TypeObj(None, None), TypeObj(Some("boolean"), None)>>),
     Some(<<TypeObj(Some("Reference"), Some(<<PatientProfile>>)),
            TypeObj(Some("Quantity"), None)>>)}

ElementDetails ==
    {DefaultDetail}
    \cup {[DefaultDetail EXCEPT !.min = Some(m)] :
              m \in {U64(0, 1), U64(1, 0), U64(1, 2)}}
    \cup {[DefaultDetail EXCEPT !.max = Some(m)] : m \in {"*", "0", "2", "+2", "many"}}
    \cup {[DefaultDetail EXCEPT !.type = t] : t \in ElementTypeLists}
    \cup {[DefaultDetail EXCEPT !.min = Some(U64(0, 2)), !.max = Some("1")]}

\* The paths of the elements of a document named T: the root, leaves,
\* a nested path, choice leaves, a path outside T, and no path at all.
ElementPaths ==
    {Some(<<Seg("T")>>),
     Some(<<Seg("T"), Seg("contact")>>),
     Some(<<Seg("T"), Seg("contact"), Seg("relationship")>>),
     Some(<<Seg("T"), SegX("value")>>),
     Some(<<Seg("T"), Seg("value")>>),
     Some(<<Seg("T"), SegXX("value")>>),
     Some(<<Seg("Other"), Seg("name")>>),
     None}

\* The element array with these paths: `detail` at the odd positions and
\* the default at the even ones.
ElementsOf(paths, detail) ==
    [i \in 1..Len(paths) |->
        LET d == IF i % 2 = 1 THEN detail ELSE DefaultDetail
        IN  Elem(paths[i], d.min, d.max, d.type)]

PathSeqs == UNION {[1..n -> ElementPaths] : n \in 0..MaxElems}

GoodSnapshot == Container(Some(ElementsOf(<<Some(<<Seg("T")>>),
                                             Some(<<Seg("T"), Seg("contact")>>)>>,
                                           DefaultDetail)))
GoodDifferential == Container(Some(ElementsOf(<<Some(<<Seg("T"), SegX("value")>>)>>,
                                               DefaultDetail)))
NoElementArray == Container(None)
PathlessSnapshot == Container(Some(ElementsOf(<<Some(<<Seg("T")>>), None>>,
                                               DefaultDetail)))

\* Documents that differ in what parse() checks before the elements.
HeaderDocs ==
    {FullSDJson(resourceType, url, name, kind, baseDefinition, abstract, snapshot,
                differential) :
        resourceType \in {None, Some("StructureDefinition"), Some("Patient")},
        url \in {None, Some(ParserUrl)},
        name \in {None, Some("T")},
        kind \in {None, Some("resource"), Some("complex-type"), Some("primitive-type"),
                  Some("logical"), Some("unknown-type")},
        baseDefinition \in {None, Some(ParserBase)},
        abstract \in {None, Some(TRUE)},
        snapshot \in {None, Some(GoodSnapshot), Some(NoElementArray),
                      Some(PathlessSnapshot)},
        differential \in {None, Some(GoodDifferential), Some(NoElementArray)}}

\* Resources and datatypes that differ in their elements.
ElementDocs ==
    {FullSDJson(Some("StructureDefinition"), Some(ParserUrl), Some("T"), Some(kind),
                None, None, Some(Container(Some(ElementsOf(paths, detail)))), None) :
        kind \in {"resource", "complex-type"},
        paths \in PathSeqs,
        detail \in ElementDetails}

ParserInit ==
    /\ pc = "parse"
    /\ structure_defs = <<>>
    /\ Untouched
    /\ ResolverInit
    /\ input \in {Some(json) : json \in HeaderDocs \cup ElementDocs}
    /\ output = None

\* parse(json)
CallParse ==
    /\ pc = "parse"
    /\ LET parsed == Parse(Unwrap(input))
       IN  /\ output' = Some(parsed)
           /\ parser_cache' = IF parsed.ok
                              THEN MapPut(parser_cache, parsed.val.url, parsed.val)
                              ELSE parser_cache
    /\ pc' = "parsed"
    /\ UNCHANGED <<entry, calls, structure_defs, resources, datatypes, primitives,
                   search_defs, graph, warnings, processed, build_result, result, input>>
    /\ UNCHANGED resolverVars

\* to_resource_type(&parsed) on the structure parse() returned
CallToResourceType ==
    /\ pc = "parsed"
    /\ Unwrap(output).ok
    /\ entry' = "to_resource_type"
    /\ result' = Some(to_resource_type(Unwrap(output).val))
    /\ pc' = "converted"
    /\ UNCHANGED <<calls, structure_defs, resources, datatypes, primitives, search_defs,
                   graph, parser_cache, warnings, processed, build_result>>
    /\ UNCHANGED <<resolverVars, callVars>>

\* to_datatype(&parsed) on the structure parse() returned
CallToDatatype ==
    /\ pc = "parsed"
    /\ Unwrap(output).ok
    /\ entry' = "to_datatype"
    /\ result' = Some(to_datatype(Unwrap(output).val))
    /\ pc' = "converted"
    /\ UNCHANGED <<calls, structure_defs, resources, datatypes, primitives, search_defs,
                   graph, parser_cache, warnings, processed, build_result>>
    /\ UNCHANGED <<resolverVars, callVars>>

ParserNext == CallParse \/ CallToResourceType \/ CallToDatatype

SpecParser == ParserInit /\ [][ParserNext]_vars

(***************************************************************************)
(* A TypeGraph used on its own: any sequence of add_resource,              *)
(* add_datatype, add_primitive and add_profile, with any names.            *)
(***************************************************************************)
TypeNames == {"Patient", "Quantity", "string"}

\* A type value of the given name (the maps do not look into it).
TypeNamed(name) ==
    [name |-> name, url |-> "http://hl7.org/fhir/StructureDefinition/" \o name]

GraphInit ==
    /\ pc = "graph"
    /\ structure_defs = <<>>
    /\ Untouched
    /\ ResolverInit
    /\ NoCall

GraphFrame ==
    /\ UNCHANGED <<pc, entry, calls, structure_defs, resources, datatypes, primitives,
                   search_defs, parser_cache, warnings, processed, build_result, result>>
    /\ UNCHANGED <<resolverVars, callVars>>

AddResource ==
    /\ pc = "graph"
    /\ \E name \in TypeNames : graph' = add_resource(graph, name, TypeNamed(name))
    /\ GraphFrame

AddDatatype ==
    /\ pc = "graph"
    /\ \E name \in TypeNames : graph' = add_datatype(graph, name, TypeNamed(name))
    /\ GraphFrame

AddPrimitive ==
    /\ pc = "graph"
    /\ \E name \in TypeNames : graph' = add_primitive(graph, name, TypeNamed(name))
    /\ GraphFrame

AddProfile ==
    /\ pc = "graph"
    /\ \E name \in TypeNames : graph' = add_profile(graph, name, TypeNamed(name))
    /\ GraphFrame

GraphNext == AddResource \/ AddDatatype \/ AddPrimitive \/ AddProfile

SpecGraph == GraphInit /\ [][GraphNext]_vars

(***************************************************************************)
(* A CardinalityRange used on its own: a constructor, or a predicate on    *)
(* any range.                                                              *)
(***************************************************************************)
MaxCard == 4

Ranges == {CardinalityRange(min, max) :
              min \in 0..MaxCard, max \in {None} \cup {Some(n) : n \in 0..MaxCard}}

CardinalityInit ==
    /\ pc = "cardinality"
    /\ structure_defs = <<>>
    /\ Untouched
    /\ ResolverInit
    /\ input \in {None} \cup {Some(range) : range \in Ranges}
    /\ output = None

\* The call returns `value`.
CardinalityReturns(fn, value) ==
    /\ entry' = fn
    /\ output' = Some(value)
    /\ pc' = "returned"
    /\ UNCHANGED <<calls, structure_defs, resources, datatypes, primitives, search_defs,
                   graph, parser_cache, warnings, processed, build_result, result, input>>
    /\ UNCHANGED resolverVars

CallRequired == pc = "cardinality" /\ input = None /\ CardinalityReturns("required", required)

CallOptional == pc = "cardinality" /\ input = None /\ CardinalityReturns("optional", optional)

CallRequiredArray ==
    pc = "cardinality" /\ input = None /\ CardinalityReturns("required_array", required_array)

CallOptionalArray ==
    pc = "cardinality" /\ input = None /\ CardinalityReturns("optional_array", optional_array)

CallIsRequired ==
    /\ pc = "cardinality" /\ IsSome(input)
    /\ CardinalityReturns("is_required", is_required(Unwrap(input)))

CallIsArray ==
    /\ pc = "cardinality" /\ IsSome(input)
    /\ CardinalityReturns("is_array", is_array(Unwrap(input)))

CallIsOptional ==
    /\ pc = "cardinality" /\ IsSome(input)
    /\ CardinalityReturns("is_optional", is_optional(Unwrap(input)))

CardinalityNext ==
    \/ CallRequired \/ CallOptional \/ CallRequiredArray \/ CallOptionalArray
    \/ CallIsRequired \/ CallIsArray \/ CallIsOptional

SpecCardinality == CardinalityInit /\ [][CardinalityNext]_vars

(***************************************************************************)
(* cli/generate.rs: merge_type_graphs on any two graphs.                   *)
(***************************************************************************)
MaxTypes == 2

\* A TypeGraph with its version: the graph a build for a package returns.
GraphOf(fhir_version, package, rs, ds, ps) ==
    [resources |-> rs, datatypes |-> ds, primitives |-> ps, profiles |-> <<>>,
     source_packages |-> <<package>>, fhir_version |-> fhir_version]

\* The type a package defines under a name.
TypeFrom(package, name) ==
    [name |-> name, url |-> "http://" \o package \o "/StructureDefinition/" \o name]

\* The map of a package with these names, in this order.
MapFrom(package, names) ==
    [i \in 1..Len(names) |-> [k |-> names[i], v |-> TypeFrom(package, names[i])]]

GraphsFrom(fhir_version, package) ==
    {GraphOf(fhir_version, package, MapFrom(package, rs), MapFrom(package, ds),
             MapFrom(package, ps)) :
        rs \in DistinctSeqs({"Patient", "Observation", "Group"}, MaxTypes),
        ds \in DistinctSeqs({"Quantity"}, 1),
        ps \in DistinctSeqs({"string"}, 1)}

\* IndexMap::insert of every entry of `other`, in its order.
RECURSIVE InsertAll(_, _)
InsertAll(m, other) ==
    IF other = <<>> THEN m
    ELSE InsertAll(Insert(m, Head(other).k, Head(other).v), Tail(other))

\* merge_type_graphs that keeps the entries of base on a collision.
RECURSIVE InsertMissing(_, _)
InsertMissing(m, other) ==
    IF other = <<>> THEN m
    ELSE InsertMissing(IF Head(other).k \in Keys(m) THEN m
                       ELSE Insert(m, Head(other).k, Head(other).v), Tail(other))

merge_type_graphs_keeping_base(base, other) ==
    Ok([base EXCEPT !.resources = InsertMissing(base.resources, other.resources),
                    !.datatypes = InsertMissing(base.datatypes, other.datatypes),
                    !.primitives = InsertMissing(base.primitives, other.primitives)])

merge_type_graphs(base, other) ==
    Ok([base EXCEPT !.resources = InsertAll(base.resources, other.resources),
                    !.datatypes = InsertAll(base.datatypes, other.datatypes),
                    !.primitives = InsertAll(base.primitives, other.primitives)])

MergeInit ==
    /\ pc = "merge_type_graphs"
    /\ structure_defs = <<>>
    /\ Untouched
    /\ ResolverInit
    /\ input \in {Some([base |-> base, other |-> other]) :
                      base \in GraphsFrom("R4", "hl7.fhir.r4.core"),
                      other \in GraphsFrom("R5", "hl7.fhir.us.core")}
    /\ output = None

CallMergeTypeGraphs ==
    /\ pc = "merge_type_graphs"
    /\ output' = Some(merge_type_graphs(Unwrap(input).base, Unwrap(input).other))
    /\ pc' = "merged"
    /\ UNCHANGED <<entry, calls, structure_defs, resources, datatypes, primitives,
                   search_defs, graph, parser_cache, warnings, processed, build_result,
                   result, input>>
    /\ UNCHANGED resolverVars

MergeNext == CallMergeTypeGraphs

SpecMerge == MergeInit /\ [][MergeNext]_vars

(***************************************************************************)
(* The two locks of a SchemaResolver, one step per acquisition and per     *)
(* release.  Each task records the guards it holds; whether a lookup hits  *)
(* and whether the external client succeeds is left open.  A tokio RwLock  *)
(* is write-preferring: a reader waits while a writer holds the lock or    *)
(* waits for it.                                                           *)
(***************************************************************************)
Guard(lock, mode) == [lock |-> lock, mode |-> mode]

LockTask == [pc |-> "idle", op |-> "none", holds |-> {}]

\* The tasks holding such a guard.
Holders(lock, mode) == {t \in Tasks : Guard(lock, mode) \in task[t].holds}

\* The tasks waiting in write().await of the lock.
WaitingWriters(lock) ==
    {t \in Tasks : task[t].pc \in (IF lock = "cache"
                                    THEN {"resolve_type:write", "clear_cache:cache"}
                                    ELSE {"is_primitive_type:write",
                                          "clear_cache:primitives"})}

CanRead(t, lock) == Holders(lock, "write") = {} /\ WaitingWriters(lock) \ {t} = {}
CanWrite(lock) == Holders(lock, "write") = {} /\ Holders(lock, "read") = {}

LockInit ==
    /\ BuildInit
    /\ NoCall
    /\ cache = EmptyMap
    /\ resolver_primitives = EmptyMap
    /\ cache_writer = 0
    /\ cache_readers = {}
    /\ task = [t \in Tasks |-> LockTask]
    /\ started = 0
    /\ returned = [url \in Urls |-> {}]
    /\ stored = [code \in Codes |-> {}]
    /\ ever_stored = [code \in Codes |-> {}]
    /\ cleared = FALSE

\* Task t goes to `pc` holding `holds`; the variables of the lock of
\* `cache` follow.
LockMoves(t, pc_after, holds) ==
    /\ task' = [task EXCEPT ![t].pc = pc_after, ![t].holds = holds]
    /\ cache_writer' = IF Guard("cache", "write") \in holds THEN t
                       ELSE IF cache_writer = t THEN 0 ELSE cache_writer
    /\ cache_readers' = IF Guard("cache", "read") \in holds THEN cache_readers \cup {t}
                        ELSE cache_readers \ {t}
    /\ UNCHANGED <<cache, resolver_primitives, started, returned, stored, ever_stored,
                   cleared>>
    /\ UNCHANGED <<buildVars, callVars>>

\* A task that is in no operation starts one.
LockCall(t) ==
    /\ task[t].pc \in {"idle", "done"}
    /\ started < MaxCalls
    /\ \E op \in {"resolve_type", "is_primitive_type", "clear_cache", "cache_stats"} :
          task' = [task EXCEPT ![t] =
                      [pc |-> CASE op = "resolve_type" -> "resolve_type:read"
                                [] op = "is_primitive_type" -> "is_primitive_type:read"
                                [] op = "clear_cache" -> "clear_cache:cache"
                                [] op = "cache_stats" -> "cache_stats:cache",
                       op |-> op, holds |-> {}]]
    /\ started' = started + 1
    /\ UNCHANGED <<cache, resolver_primitives, cache_writer, cache_readers, returned,
                   stored, ever_stored, cleared>>
    /\ UNCHANGED <<buildVars, callVars>>

\* resolve_type returns: to the caller, or to is_primitive_type, which
\* stores a boolean when a document was found.
AfterResolveType(t, found) ==
    IF task[t].op = "is_primitive_type" /\ found THEN "is_primitive_type:write"
    ELSE "done"

\* resolve_type: self.cache.read().await
LockResolveTypeRead(t) ==
    /\ task[t].pc = "resolve_type:read"
    /\ CanRead(t, "cache")
    /\ LockMoves(t, "resolve_type:get", {Guard("cache", "read")})

\* cache.get() hits or misses, and the guard is dropped.
LockResolveTypeGet(t) ==
    /\ task[t].pc = "resolve_type:get"
    /\ \E hit \in BOOLEAN :
          LockMoves(t, IF hit THEN AfterResolveType(t, TRUE) ELSE "resolve_type:resolve",
                    {})

\* self.manager.resolve(canonical_url).await returns.
LockResolveTypeResolve(t) ==
    /\ task[t].pc = "resolve_type:resolve"
    /\ \E ok \in BOOLEAN :
          LockMoves(t, IF ok THEN "resolve_type:write" ELSE AfterResolveType(t, FALSE), {})

\* self.cache.write().await
LockResolveTypeWrite(t) ==
    /\ task[t].pc = "resolve_type:write"
    /\ CanWrite("cache")
    /\ LockMoves(t, "resolve_type:insert", {Guard("cache", "write")})

\* cache.insert(), and the guard is dropped.
LockResolveTypeInsert(t) ==
    /\ task[t].pc = "resolve_type:insert"
    /\ LockMoves(t, AfterResolveType(t, TRUE), {})

\* is_primitive_type: self.primitives.read().await
LockIsPrimitiveTypeRead(t) ==
    /\ task[t].pc = "is_primitive_type:read"
    /\ CanRead(t, "primitives")
    /\ LockMoves(t, "is_primitive_type:get", {Guard("primitives", "read")})

\* LockIsPrimitiveTypeGet with the guard alive until the function returns.
LockIsPrimitiveTypeGetKeepingGuard(t) ==
    /\ task[t].pc = "is_primitive_type:get"
    /\ \E hit \in BOOLEAN :
          LockMoves(t, IF hit THEN "done" ELSE "resolve_type:read",
                    IF hit THEN {} ELSE task[t].holds)

\* cache.get() hits or misses, and the guard is dropped.
LockIsPrimitiveTypeGet(t) ==
    /\ task[t].pc = "is_primitive_type:get"
    /\ \E hit \in BOOLEAN :
          LockMoves(t, IF hit THEN "done" ELSE "resolve_type:read", {})

\* self.primitives.write().await
LockIsPrimitiveTypeWrite(t) ==
    /\ task[t].pc = "is_primitive_type:write"
    /\ CanWrite("primitives")
    /\ LockMoves(t, "is_primitive_type:insert", {Guard("primitives", "write")})

\* cache.insert(), and the guard is dropped.
LockIsPrimitiveTypeInsert(t) ==
    /\ task[t].pc = "is_primitive_type:insert"
    /\ LockMoves(t, "done", {})

\* clear_cache: self.cache.write().await
LockClearCacheCache(t) ==
    /\ task[t].pc = "clear_cache:cache"
    /\ CanWrite("cache")
    /\ LockMoves(t, "clear_cache:primitives", {Guard("cache", "write")})

\* self.primitives.write().await, the guard of `cache` still alive
LockClearCachePrimitives(t) ==
    /\ task[t].pc = "clear_cache:primitives"
    /\ CanWrite("primitives")
    /\ LockMoves(t, "clear_cache:clear", task[t].holds \cup {Guard("primitives", "write")})

\* prim_cache.clear(), and both guards are dropped on return.
LockClearCacheReturn(t) ==
    /\ task[t].pc = "clear_cache:clear"
    /\ LockMoves(t, "done", {})

\* cache_stats: self.cache.read().await
LockCacheStatsCache(t) ==
    /\ task[t].pc = "cache_stats:cache"
    /\ CanRead(t, "cache")
    /\ LockMoves(t, "cache_stats:primitives", {Guard("cache", "read")})

\* self.primitives.read().await, the guard of `cache` still alive
LockCacheStatsPrimitives(t) ==
    /\ task[t].pc = "cache_stats:primitives"
    /\ CanRead(t, "primitives")
    /\ LockMoves(t, "cache_stats:len", task[t].holds \cup {Guard("primitives", "read")})

\* Both len(), and both guards are dropped on return.
LockCacheStatsReturn(t) ==
    /\ task[t].pc = "cache_stats:len"
    /\ LockMoves(t, "done", {})

\* The steps of an operation of task t after its call.
LockProgress(t) ==
    \/ LockResolveTypeRead(t)
    \/ LockResolveTypeGet(t)
    \/ LockResolveTypeResolve(t)
    \/ LockResolveTypeWrite(t)
    \/ LockResolveTypeInsert(t)
    \/ LockIsPrimitiveTypeRead(t)
    \/ LockIsPrimitiveTypeGet(t)
    \/ LockIsPrimitiveTypeWrite(t)
    \/ LockIsPrimitiveTypeInsert(t)
    \/ LockClearCacheCache(t)
    \/ LockClearCachePrimitives(t)
    \/ LockClearCacheReturn(t)
    \/ LockCacheStatsCache(t)
    \/ LockCacheStatsPrimitives(t)
    \/ LockCacheStatsReturn(t)

LockNext == \E t \in Tasks : LockCall(t) \/ LockProgress(t)

\* Every task that can take a step of its operation eventually takes one:
\* the runtime polls every ready task, a lock is granted once it is free
\* and the external client answers.
LockFairness == \A t \in Tasks : WF_vars(LockProgress(t))

SpecLocks == LockInit /\ [][LockNext]_vars /\ LockFairness

(***************************************************************************)
(* Properties of the graph builder.                                        *)
(***************************************************************************)
CountOf(seq, x) == Cardinality({i \in 1..Len(seq) : seq[i] = x})

RecognizedKinds == {"resource", "complex-type", "primitive-type"}
Recognized(sd) == IsSome(sd.kind) /\ Unwrap(sd.kind) \in RecognizedKinds

\* The keys the documents of structure_defs of one kind are categorized under.
BucketKeys(kind) ==
    {NameKey(structure_defs[i]) :
        i \in {j \in 1..Len(structure_defs) : structure_defs[j].kind = Some(kind)}}

\* A later document of the batch has the same kind and the same key.
Superseded(i) ==
    \E j \in (i + 1)..Len(structure_defs) :
        /\ structure_defs[j].kind = structure_defs[i].kind
        /\ NameKey(structure_defs[j]) = NameKey(structure_defs[i])

KindRank(kind) ==
    CASE kind = "primitive-type" -> 1
      [] kind = "complex-type" -> 2
      [] kind = "resource" -> 3
      [] kind = "search-parameters" -> 4

AllProcessed(kind) == CountOf(processed, kind) = Cardinality(BucketKeys(kind))

\* C1: build() processes primitives, then datatypes, then resources, one
\* document at a time: nothing of a later bucket is converted or added
\* before every document of the earlier buckets has been processed, and
\* search parameters are attached only after the three buckets.
C1_DependencyOrder ==
    /\ \A i, j \in 1..Len(processed) :
          i < j => KindRank(processed[i]) <= KindRank(processed[j])
    /\ ("complex-type" \in Range(processed) \/ graph.datatypes # <<>>)
          => AllProcessed("primitive-type")
    /\ ("resource" \in Range(processed) \/ graph.resources # <<>>)
          => AllProcessed("primitive-type") /\ AllProcessed("complex-type")
    /\ ("search-parameters" \in Range(processed)
            \/ \E i \in 1..Len(graph.resources) :
                   graph.resources[i].v.search_parameters # <<>>)
          => /\ AllProcessed("primitive-type")
             /\ AllProcessed("complex-type")
             /\ AllProcessed("resource")

C1_Witness ==
    /\ pc = "done"
    /\ {"primitive-type", "complex-type", "resource", "search-parameters"}
          \subseteq Range(processed)
    /\ graph.primitives # <<>> /\ graph.datatypes # <<>> /\ graph.resources # <<>>

Returned == IsSome(build_result) /\ Unwrap(build_result).ok
BuiltGraph == Unwrap(build_result).val

Converts(sd) ==
    CASE sd.kind = Some("primitive-type") -> process_primitive(sd).ok
      [] sd.kind = Some("complex-type") -> process_datatype(sd).ok
      [] sd.kind = Some("resource") -> process_resource(sd).ok
      [] OTHER -> FALSE

MapOfKind(g, sd) ==
    CASE sd.kind = Some("primitive-type") -> g.primitives
      [] sd.kind = Some("complex-type") -> g.datatypes
      [] sd.kind = Some("resource") -> g.resources

\* The graph holds the type made from document sd (the documents of the
\* model have pairwise different urls).
Present(g, sd) ==
    \E i \in 1..Len(MapOfKind(g, sd)) :
        /\ MapOfKind(g, sd)[i].k = NameKey(sd)
        /\ Some(MapOfKind(g, sd)[i].v.url) = sd.url

AttachedParams(g) ==
    UNION {Range(g.resources[i].v.search_parameters) : i \in 1..Len(g.resources)}

\* The search parameter is on every resource of the graph its base names.
ParamPresent(g, content) ==
    \A base \in Range(BasesOf(content)) :
        base \in Keys(g.resources)
            => parse_search_parameter(content).val
                   \in Range(Lookup(g.resources, base).search_parameters)

FatalErrors == {"CanonicalManager", "Failed to list packages"}

\* What C2 says of the items that fail, and of the search parameters.
C2_Common ==
    /\ (IsSome(build_result) /\ ~Unwrap(build_result).ok)
          => Unwrap(build_result).err \in FatalErrors
    /\ Returned =>
          /\ \A i \in 1..Len(structure_defs) :
                (Recognized(structure_defs[i]) /\ ~Converts(structure_defs[i]))
                    => ~Present(BuiltGraph, structure_defs[i])
          /\ \A i \in 1..Len(search_defs) :
                IF parse_search_parameter(search_defs[i]).ok
                THEN ParamPresent(BuiltGraph, search_defs[i])
                ELSE \A p \in AttachedParams(BuiltGraph) :
                         Some(p.code) # search_defs[i].code

\* C2 as claimed: a per-item failure never aborts build(); the failing
\* item is absent from the graph and every other item that converts is in it.
C2_Original ==
    /\ C2_Common
    /\ Returned =>
          \A i \in 1..Len(structure_defs) :
              Converts(structure_defs[i]) => Present(BuiltGraph, structure_defs[i])

\* C2 as amended: a per-item failure never aborts build(); the failing
\* item is absent from the graph, and every StructureDefinition that
\* converts is in it unless a later document of the same kind has the same
\* name (the bucket keeps the last document of a name, converting or not);
\* every SearchParameter that parses is on each graph resource it names.
C2_ItemFailuresAreSkipped ==
    /\ C2_Common
    /\ Returned =>
          \A i \in 1..Len(structure_defs) :
              (Converts(structure_defs[i]) /\ ~Superseded(i))
                  => Present(BuiltGraph, structure_defs[i])

C2_Witness ==
    /\ Returned
    /\ \E i \in 1..Len(structure_defs) :
          Recognized(structure_defs[i]) /\ ~Converts(structure_defs[i])
    /\ \E i \in 1..Len(structure_defs) :
          Converts(structure_defs[i]) /\ Present(BuiltGraph, structure_defs[i])
    /\ \E i \in 1..Len(search_defs) : ~parse_search_parameter(search_defs[i]).ok
    /\ AttachedParams(BuiltGraph) # {}

\* C3: build() returns an error whenever a search or list_packages fails,
\* and the caller gets a value only when the call is over: an error, or the
\* graph after all three loops, the search parameters and the metadata.
C3_FatalErrorsPropagate ==
    /\ (\E i \in 1..Len(calls) :
            calls[i].fn \in {"search", "list_packages"} /\ ~calls[i].ok)
          => /\ IsSome(build_result) /\ ~Unwrap(build_result).ok
             /\ pc = "done" => IsSome(result) /\ ~Unwrap(result).ok
    /\ IsSome(result) => pc \in {"done", "categorized"}
    /\ (pc = "done" /\ IsSome(result) /\ Unwrap(result).ok)
          => /\ Unwrap(result).val = graph
             /\ DOMAIN primitives = {} /\ DOMAIN datatypes = {} /\ DOMAIN resources = {}
             /\ "search-parameters" \in Range(processed)
             /\ calls[Len(calls)] = Call("list_packages", TRUE)
             /\ CountOf(calls, Call("search", TRUE)) = 2

C3_Witness ==
    /\ pc = "done"
    /\ ~Unwrap(result).ok
    /\ graph.resources # <<>>
    /\ calls[Len(calls)] = Call("search", FALSE)

\* C4: build_from_package calls install_package before anything else; when
\* that fails it returns an error and build() never starts; when it
\* succeeds the caller gets exactly what build() returned.
C4_InstallFirst ==
    /\ \A i \in 1..Len(calls) :
          calls[i].fn = "install_package" => entry = "build_from_package" /\ i = 1
    /\ entry = "build_from_package" =>
          /\ calls # <<>> /\ calls[1].fn = "install_package"
          /\ ~calls[1].ok =>
                /\ Len(calls) = 1
                /\ pc = "done"
                /\ result = Some(Err("Failed to install package"))
                /\ build_result = None
                /\ structure_defs = <<>> /\ graph = NewTypeGraph
          /\ (calls[1].ok /\ pc = "done") => IsSome(build_result) /\ result = build_result

C4_Witness ==
    /\ entry = "build_from_package"
    /\ pc = "done"
    /\ Unwrap(result).ok
    /\ Unwrap(result).val.resources # <<>>

Bucket(kind) ==
    CASE kind = "resource" -> resources
      [] kind = "complex-type" -> datatypes
      [] kind = "primitive-type" -> primitives

RECURSIVE UnrecognizedNames(_)
UnrecognizedNames(batch) ==
    IF batch = <<>> THEN <<>>
    ELSE (IF Recognized(Head(batch)) THEN <<>> ELSE <<NameKey(Head(batch))>>)
             \o UnrecognizedNames(Tail(batch))

\* C5: categorize_structures never fails; a document of kind resource,
\* complex-type or primitive-type is in the bucket of its kind, under its
\* name, and in no other (the last one of a name stays); a document of
\* another or of no kind is in no bucket and has a warning, and the rest
\* of the batch is categorized all the same.
C5_Categorize ==
    pc = "categorized" =>
        /\ Unwrap(result).ok
        /\ \A kind \in RecognizedKinds :
              /\ DOMAIN Bucket(kind) = BucketKeys(kind)
              /\ \A key \in DOMAIN Bucket(kind) : Bucket(kind)[key].kind = Some(kind)
        /\ \A i \in 1..Len(structure_defs) :
              LET sd == structure_defs[i]
              IN  IF Recognized(sd)
                  THEN Superseded(i) \/ Bucket(Unwrap(sd.kind))[NameKey(sd)] = sd
                  ELSE \A kind \in RecognizedKinds :
                           \A key \in DOMAIN Bucket(kind) : Bucket(kind)[key] # sd
        /\ warnings = UnrecognizedNames(structure_defs)

C5_Witness ==
    /\ pc = "categorized"
    /\ Len(structure_defs) >= 2
    /\ ~Recognized(structure_defs[1])
    /\ Recognized(structure_defs[2])
    /\ DOMAIN resources # {}

\* The parameters of search_defs that parse and whose base names `name`,
\* in enumeration order: once each, or once for each time the base array
\* names it.
RECURSIVE ParamsNaming(_, _, _)
ParamsNaming(defs, name, perOccurrence) ==
    IF defs = <<>> THEN <<>>
    ELSE LET param == parse_search_parameter(Head(defs))
             n == CountOf(BasesOf(Head(defs)), name)
             times == IF perOccurrence \/ n = 0 THEN n ELSE 1
         IN  (IF param.ok THEN [i \in 1..times |-> param.val] ELSE <<>>)
                 \o ParamsNaming(Tail(defs), name, perOccurrence)

\* C6 as claimed: the search_parameters of every resource of the graph are
\* exactly the parsed parameters whose base contains its name, in order.
C6_Original ==
    Returned =>
        \A i \in 1..Len(BuiltGraph.resources) :
            BuiltGraph.resources[i].v.search_parameters
                = ParamsNaming(search_defs, BuiltGraph.resources[i].v.name, FALSE)

\* C6 as amended: the search_parameters of every resource of the graph are
\* the parsed parameters whose base contains its name, in enumeration
\* order, each one as many times as its base array names the resource.
C6_ParamsPerBaseEntry ==
    Returned =>
        \A i \in 1..Len(BuiltGraph.resources) :
            BuiltGraph.resources[i].v.search_parameters
                = ParamsNaming(search_defs, BuiltGraph.resources[i].v.name, TRUE)

C6_Witness ==
    /\ Returned
    /\ \E i, j \in 1..Len(BuiltGraph.resources) :
          /\ Len(BuiltGraph.resources[i].v.search_parameters) >= 2
          /\ BuiltGraph.resources[i].v.search_parameters[1]
                # BuiltGraph.resources[i].v.search_parameters[2]
          /\ Len(BuiltGraph.resources[j].v.search_parameters) = 1

(***************************************************************************)
(* Properties of the schema resolver.                                      *)
(***************************************************************************)
\* resolve_type has returned in the task's current operation, called by the
\* task itself or by its is_primitive_type.
ResolveTypeReturned(t) == IsSome(task[t].resolved)
ResolveTypeValue(t) == Unwrap(task[t].resolved)
Missed(t) == ResolveTypeReturned(t) /\ ~task[t].hit
ClientFailed(t) == Missed(t) /\ ~IsSome(task[t].content)
Finished(t, op) == task[t].pc = "done" /\ task[t].op = op
AllFinished == \A t \in Tasks : task[t].pc \in {"idle", "done"}

\* C7: resolve_type never returns an error: when the external client fails
\* for the url, the call returns Ok(None), and the caller goes on
\* (is_primitive_type, its caller in this file, answers Ok(false)).
C7_ResolveTypeNeverErrors ==
    \A t \in Tasks :
        /\ ResolveTypeReturned(t) => ResolveTypeValue(t).ok
        /\ ClientFailed(t) => ResolveTypeValue(t) = Ok(None)
        /\ ClientFailed(t) /\ Finished(t, "is_primitive_type")
              => task[t].ret = Some(Ok(FALSE))

\* The client failed for a resolve_type and for an is_primitive_type.
C7_Witness ==
    /\ \E t \in Tasks : Finished(t, "resolve_type") /\ ClientFailed(t)
                        /\ task[t].ret = Some(Ok(None))
    /\ \E t \in Tasks : Finished(t, "is_primitive_type") /\ ClientFailed(t)

\* A call that hits the cache makes no external call, one that misses makes
\* exactly one and returns the document it got.
MissDelegatesOnce ==
    \A t \in Tasks :
        ResolveTypeReturned(t) =>
            IF task[t].hit THEN task[t].ncalls = 0
            ELSE /\ task[t].ncalls = 1
                 /\ ResolveTypeValue(t) = Ok(task[t].content)

\* As soon as a document has been returned for a url since clear_cache was
\* last called, the cache holds one of the documents returned since.
ReturnedIsStored ==
    \A url \in Urls :
        returned[url] # {} => url \in DOMAIN cache /\ cache[url] \in returned[url]

\* C8 as the spec states it: once resolve_type(url) has returned d, and until
\* clear_cache is called, every later resolve_type(url) returns d from the
\* cache without an external call; a miss delegates exactly once and stores
\* the returned document under url.
C8_Original ==
    /\ \A t \in Tasks :
          ResolveTypeReturned(t) =>
              \A d \in task[t].expect :
                  /\ task[t].hit /\ task[t].ncalls = 0
                  /\ ResolveTypeValue(t) = Ok(Some(d))
    /\ MissDelegatesOnce
    /\ ReturnedIsStored

\* C8: once resolve_type(url) has returned a document, and until clear_cache
\* is called, every later resolve_type(url) returns a document from the cache
\* without an external call; it is one of those returned before the call
\* began, unless a call that had missed the cache by then stored its own
\* document since.  A miss delegates exactly once and stores the returned
\* document under url.
C8_LaterCallsHitTheCache ==
    /\ \A t \in Tasks :
          ResolveTypeReturned(t) /\ task[t].expect # {} =>
              /\ task[t].hit /\ task[t].ncalls = 0
              /\ ResolveTypeValue(t).ok /\ IsSome(ResolveTypeValue(t).val)
              /\ ~task[t].raced => Unwrap(ResolveTypeValue(t).val) \in task[t].expect
    /\ MissDelegatesOnce
    /\ ReturnedIsStored

\* A call began after d was returned and got another document from the
\* cache, put there by a call that had missed before d was stored.
C8_Witness ==
    \E t, other \in Tasks :
        /\ Finished(t, "resolve_type") /\ task[t].raced /\ task[t].hit
        /\ task[t].expect # {}
        /\ Unwrap(ResolveTypeValue(t).val) \notin task[t].expect
        /\ Finished(other, "resolve_type") /\ Missed(other)
        /\ task[other].ret = task[t].ret

\* Every caller that missed the cache made its own single external call and
\* returned what that call produced, whatever the other callers got.
EachCallerResolvesItself ==
    \A t \in Tasks :
        Missed(t) => task[t].ncalls = 1 /\ ResolveTypeValue(t) = Ok(task[t].content)

Asked(t) == Finished(t, "is_primitive_type") /\ ~task[t].known

\* An is_primitive_type that does not find the code in the primitive cache
\* resolves base url + code, and answers true exactly when a document is
\* resolved and its kind is "primitive-type".
AnswersByKind ==
    \A t \in Tasks :
        Asked(t) =>
            /\ ResolveTypeReturned(t)
            /\ task[t].canonical_url =
                   "http://hl7.org/fhir/StructureDefinition/" \o task[t].arg
            /\ LET sd == ResolveTypeValue(t).val
               IN  task[t].ret =
                       Some(Ok(/\ IsSome(sd)
                               /\ IsSome(Unwrap(sd).kind)
                               /\ Unwrap(Unwrap(sd).kind) = "primitive-type"))

\* C10 as the spec states it: true exactly when the document resolved for
\* base url + code has kind "primitive-type", false when none is resolved,
\* and once a boolean is stored for code every later call returns that
\* boolean without resolving anything.
C10_Original ==
    /\ AnswersByKind
    /\ \A t \in Tasks :
          Finished(t, "is_primitive_type") =>
              \A is_prim \in task[t].pseen :
                  /\ task[t].known /\ ~ResolveTypeReturned(t) /\ task[t].ncalls = 0
                  /\ task[t].ret = Some(Ok(is_prim))

\* C10: true exactly when the document resolved for base url + code has kind
\* "primitive-type", false when none is resolved; once a boolean is stored
\* for code, and until clear_cache is called, every later call returns a
\* stored boolean without resolving anything: one stored before the call
\* began, unless a call that had missed the primitive cache by then stored
\* its own since.
C10_StoredUntilCleared ==
    /\ AnswersByKind
    /\ \A t \in Tasks :
          Finished(t, "is_primitive_type") /\ task[t].pexpect # {} =>
              /\ task[t].known /\ ~ResolveTypeReturned(t) /\ task[t].ncalls = 0
              /\ Unwrap(task[t].ret).ok
              /\ ~task[t].praced => Unwrap(task[t].ret).val \in task[t].pexpect

\* One call resolved a document without kind and answered false; a call
\* begun after that took false from the primitive cache.
C10_Witness ==
    \E t, other \in Tasks :
        /\ Asked(t) /\ IsSome(ResolveTypeValue(t).val)
        /\ ~IsSome(Unwrap(ResolveTypeValue(t).val).kind)
        /\ task[t].ret = Some(Ok(FALSE))
        /\ Finished(other, "is_primitive_type") /\ task[other].known
        /\ task[other].pexpect = {FALSE}
        /\ task[other].ret = Some(Ok(FALSE))

(***************************************************************************)
(* Properties of get_resources_by_type.                                    *)
(***************************************************************************)
SearchReturned == pc = "returned" /\ IsSome(output) /\ calls # <<>>
Answer == calls[1].answer

\* The hits of the answer that have a url the client resolves, in order.
Resolvable(hits) == SelectSeq(hits, LAMBDA h : IsSome(h.url) /\ h.resolved.ok)

\* C11: get_resources_by_type fails only when the search itself fails;
\* otherwise it returns, in search order, the content of exactly the hits
\* that have a url the client resolves (it asks the client for every hit
\* with a url, and for no other); the search is made for the given type with
\* the given limit, 1000 when there is none.
C11_SearchSkipsUnresolvedHits ==
    SearchReturned =>
        /\ Unwrap(output).ok <=> Answer.ok
        /\ calls[1].query.resource_type = Unwrap(input).resource_type
        /\ calls[1].query.limit = IF Unwrap(input).limit = None THEN 1000
                                  ELSE Unwrap(Unwrap(input).limit)
        /\ Answer.ok =>
              /\ Len(Unwrap(output).val) = Len(Resolvable(Answer.val))
              /\ \A i \in 1..Len(Resolvable(Answer.val)) :
                    Unwrap(output).val[i] = Resolvable(Answer.val)[i].resolved.val
              /\ Len(calls) - 1 =
                    Cardinality({i \in 1..Len(Answer.val) : IsSome(Answer.val[i].url)})

\* A search without limit answered with a hit without url, a hit that does
\* not resolve and a hit that does: the call returns the last one alone.
C11_Witness ==
    /\ SearchReturned
    /\ Unwrap(input).limit = None /\ calls[1].query.limit = 1000
    /\ Answer.ok /\ Len(Answer.val) = 3
    /\ \E i, j, k \in 1..3 :
          /\ Answer.val[i].url = None
          /\ IsSome(Answer.val[j].url) /\ ~Answer.val[j].resolved.ok
          /\ IsSome(Answer.val[k].url) /\ Answer.val[k].resolved.ok
          /\ Unwrap(output) = Ok(<<Answer.val[k].resolved.val>>)

(***************************************************************************)
(* Properties of cache_stats and clear_cache.                              *)
(***************************************************************************)
Sizes(type_cache_size, primitive_cache_size) ==
    [type_cache_size |-> type_cache_size, primitive_cache_size |-> primitive_cache_size]

\* In this step task t returns from `op`.
ReturnsFrom(t, op) == task[t].op = op /\ task[t].pc # "done" /\ task'[t].pc = "done"

\* C12: cache_stats called on a new resolver reports 0 and 0; whenever
\* cache_stats returns, it reports the numbers of entries the document cache
\* and the primitive cache have at that moment; and whenever clear_cache
\* returns while no other operation is running, both caches are empty (so
\* that cache_stats then reports 0 and 0), whatever was called before.
C12_StatsAreActualAndClearEmpties ==
    [][\A t \in Tasks :
          /\ ReturnsFrom(t, "cache_stats") /\ started' = 1 =>
                task'[t].ret = Some(Ok(Sizes(0, 0)))
          /\ ReturnsFrom(t, "cache_stats") =>
                task'[t].ret = Some(Ok(Sizes(Cardinality(DOMAIN cache'),
                                             Cardinality(DOMAIN resolver_primitives'))))
          /\ ReturnsFrom(t, "clear_cache")
             /\ (\A other \in Tasks \ {t} : task'[other].pc \in {"idle", "done"})
                => cache' = EmptyMap /\ resolver_primitives' = EmptyMap]_vars

\* is_primitive_type filled both caches, clear_cache returned with nothing
\* running, and the cache_stats called then reported 0 and 0.
C12_Witness ==
    \E t \in Tasks :
        /\ Finished(t, "cache_stats") /\ task[t].quiet
        /\ task[t].ret = Some(Ok(Sizes(0, 0)))
        /\ ever_stored["string"] # {}
        /\ cache = EmptyMap /\ resolver_primitives = EmptyMap

(***************************************************************************)
(* Properties of parse().                                                  *)
(***************************************************************************)
\* parse() has returned.
Parsed == pc \in {"parsed", "converted"} /\ IsSome(input) /\ IsSome(output)
Doc == Unwrap(input)
ParseResult == Unwrap(output)

KnownKinds == {"resource", "complex-type", "primitive-type", "logical"}

\* The precondition a document violates first, in the order resourceType,
\* url, name, kind, element container; "" when it violates none.
FirstViolated(json) ==
    IF json.resourceType = None THEN "Missing resourceType"
    ELSE IF json.resourceType # Some("StructureDefinition")
         THEN "Expected StructureDefinition"
    ELSE IF json.url = None THEN "Missing url"
    ELSE IF json.name = None THEN "Missing name"
    ELSE IF json.kind = None THEN "Missing kind"
    ELSE IF Unwrap(json.kind) \notin KnownKinds THEN "Unknown kind"
    ELSE IF json.snapshot = None /\ json.differential = None
         THEN "Missing both snapshot and differential"
    ELSE ""

\* Every element of the element arrays the document has carries a path.
CarriesPaths(container) ==
    IsSome(container) /\ IsSome(Unwrap(container).element) =>
        \A i \in 1..Len(Unwrap(Unwrap(container).element)) :
            IsSome(Unwrap(Unwrap(container).element)[i].path)

AllElementsCarryPath(json) == CarriesPaths(json.snapshot) /\ CarriesPaths(json.differential)

\* The container parse() reads: the snapshot when there is one.
ChosenContainer(json) == IF IsSome(json.snapshot) THEN json.snapshot ELSE json.differential

\* C13 as stated: parse fails on the first violated precondition, and a
\* document that violates none and whose elements all carry a path parses.
C13_Original ==
    Parsed =>
        /\ FirstViolated(Doc) # "" => ParseResult = Err(FirstViolated(Doc))
        /\ FirstViolated(Doc) = "" /\ AllElementsCarryPath(Doc) => ParseResult.ok

\* C13: parse fails on the first violated precondition, in the order
\* resourceType (missing, or not StructureDefinition), url, name, kind
\* (missing, or not one of the four kinds), element container (neither
\* snapshot nor differential present).  A document that violates none
\* parses exactly when the container parse reads, the snapshot when present
\* and the differential otherwise, has an element array whose elements all
\* carry a path; it fails with "Missing element array" when that container
\* has no element array and with "Element missing path" when an element of
\* it has no path, whatever the other container holds.
C13_ParseFailsOnFirstViolatedPrecondition ==
    Parsed =>
        /\ FirstViolated(Doc) # "" => ParseResult = Err(FirstViolated(Doc))
        /\ FirstViolated(Doc) = "" =>
              LET chosen == Unwrap(ChosenContainer(Doc))
              IN  IF chosen.element = None
                  THEN ParseResult = Err("Missing element array")
                  ELSE IF CarriesPaths(ChosenContainer(Doc))
                       THEN ParseResult.ok
                       ELSE ParseResult = Err("Element missing path")

\* A document that violates no precondition, with a snapshot whose
\* elements carry paths and a differential without element array, parsed.
C13_Witness ==
    /\ Parsed
    /\ FirstViolated(Doc) = ""
    /\ Doc.snapshot = Some(GoodSnapshot) /\ Doc.differential = Some(NoElementArray)
    /\ ParseResult.ok
    /\ Len(ParseResult.val.elements) = 2

\* The paths of the elements of a container of the document, in order.
PathsIn(container) ==
    [i \in 1..Len(Unwrap(container.element)) |-> Unwrap(container.element)[i].path]

\* The paths of the parsed elements, in order.
ParsedPaths == [i \in 1..Len(ParseResult.val.elements) |->
                   Some(ParseResult.val.elements[i].path)]

\* C14: a document with a snapshot, with or without a differential, that
\* parses has the elements of its snapshot and differential = false; a
\* document that parses has the elements of its differential, and
\* differential = true, only when it has no snapshot.
C14_SnapshotWins ==
    Parsed /\ ParseResult.ok =>
        IF IsSome(Doc.snapshot)
        THEN /\ ~ParseResult.val.differential
             /\ ParsedPaths = PathsIn(Unwrap(Doc.snapshot))
        ELSE /\ ParseResult.val.differential
             /\ IsSome(Doc.differential)
             /\ ParsedPaths = PathsIn(Unwrap(Doc.differential))

\* A document with a snapshot of two elements and a differential of one
\* other element parsed: it has the two elements and differential = false.
C14_Witness ==
    /\ Parsed /\ ParseResult.ok
    /\ Doc.snapshot = Some(GoodSnapshot) /\ Doc.differential = Some(GoodDifferential)
    /\ ~ParseResult.val.differential
    /\ ParsedPaths = PathsIn(GoodSnapshot)
    /\ ParsedPaths # PathsIn(GoodDifferential)

(***************************************************************************)
(* Properties of parse_element and of the flattening.                      *)
(***************************************************************************)
\* The elements of the container parse() read, as the document has them.
DocElements == Unwrap(Unwrap(ChosenContainer(Doc)).element)
ParsedElements == ParseResult.val.elements

\* The strings that parse as an unsigned number, and the number.
Numerals == ("0" :> 0) @@ ("1" :> 1) @@ ("2" :> 2) @@ ("3" :> 3) @@ ("+2" :> 2)

\* The parsed min is the number the document gives, 0 when it gives none.
MinIsDocumentMin ==
    Parsed /\ ParseResult.ok =>
        \A i \in 1..Len(ParsedElements) :
            U64(0, ParsedElements[i].min)
                = IF IsSome(DocElements[i].min) THEN Unwrap(DocElements[i].min)
                  ELSE U64(0, 0)

\* The parsed max is Unbounded for "*", Finite(n) for a numeral of n, and
\* Finite(1) for anything else or nothing.
MaxIsParsed ==
    Parsed /\ ParseResult.ok =>
        \A i \in 1..Len(ParsedElements) :
            ParsedElements[i].max
                = IF DocElements[i].max = Some("*") THEN Unbounded
                  ELSE IF IsSome(DocElements[i].max)
                          /\ Unwrap(DocElements[i].max) \in DOMAIN Numerals
                       THEN Finite(Numerals[Unwrap(DocElements[i].max)])
                       ELSE Finite(1)

\* to_resource_type or to_datatype has returned a type.
Converted == pc = "converted" /\ Parsed /\ IsSome(result) /\ Unwrap(result).ok
Properties == Unwrap(result).val.properties

\* Every property carries the max of an element with its path: None for
\* Unbounded and Some(n) for Finite(n).
PropertyMaxFollows ==
    Converted =>
        \A k \in 1..Len(Properties) :
            \E i \in 1..Len(ParsedElements) :
                /\ ParsedElements[i].path = Properties[k].path
                /\ Properties[k].cardinality.max
                      = IF ParsedElements[i].max = Unbounded THEN None
                        ELSE Some(ParsedElements[i].max.n)

\* C15: for every parsed element, min is the document's min or 0 when
\* absent, and max is Unbounded for "*", Finite(n) for a string that parses
\* as the unsigned number n, and Finite(1) for any other or absent value;
\* the flattened Property carries max=None for Unbounded and max=Some(n)
\* for Finite(n).
C15_Original == MinIsDocumentMin /\ MaxIsParsed /\ PropertyMaxFollows

\* The top-level leaf of the i-th parsed element, and whether it is the
\* root element.
LeafAt(i) == LeafOf(ParsedElements[i].path, ParseResult.val.name)
IsRoot(i) == ParsedElements[i].path = <<Seg(ParseResult.val.name)>>

\* The elements that are the first of their leaf, in order.
FirstOfLeaf ==
    SelectSeq([i \in 1..Len(ParsedElements) |-> i],
              LAMBDA i : /\ ~IsRoot(i)
                         /\ \A j \in 1..(i - 1) : IsRoot(j) \/ LeafAt(j) # LeafAt(i))

\* The properties are those of the first elements of each leaf, in order.
OnePropertyPerLeaf ==
    /\ Len(Properties) = Len(FirstOfLeaf)
    /\ \A k \in 1..Len(FirstOfLeaf) :
          LET elem == ParsedElements[FirstOfLeaf[k]]
          IN  /\ Properties[k].path = elem.path
              /\ Properties[k].cardinality.min = elem.min
              /\ Properties[k].property_type = PropertyTypeOf(elem.types)

\* C16: elements_to_properties yields no property for the root element and
\* exactly one property per top-level leaf: the first element with that
\* leaf supplies the property and every later element with the same leaf,
\* including deeper nested paths, is skipped; properties keep the order of
\* first occurrence.
C16_Original == Converted => OnePropertyPerLeaf

\* No element has a choice leaf.
NoChoiceLeaf == \A i \in 1..Len(ParsedElements) : LeafAt(i).nx = 0

\* What holds of the flattening: one property per leaf when no leaf ends
\* in "[x]".
OnePropertyPerPlainLeaf == Converted /\ NoChoiceLeaf => OnePropertyPerLeaf

\* Two elements with the path T.value[x] gave two properties named value.
ChoiceLeafTwice ==
    /\ Converted
    /\ [i \in 1..Len(ParsedElements) |-> ParsedElements[i].path]
          = <<(<<Seg("T"), SegX("value")>>), (<<Seg("T"), SegX("value")>>)>>
    /\ Len(Properties) = 2
    /\ Properties[1].name = "value" /\ Properties[2].name = "value"

\* The element T.value after the element T.value[x] gave no property.
PlainLeafAfterChoiceLeaf ==
    /\ Converted
    /\ [i \in 1..Len(ParsedElements) |-> ParsedElements[i].path]
          = <<(<<Seg("T"), SegX("value")>>), (<<Seg("T"), Seg("value")>>)>>
    /\ Len(Properties) = 1

\* The text of a leaf.
TextOf(leaf) ==
    IF leaf.nx = 0 THEN leaf.stem
    ELSE IF leaf.nx = 1 THEN leaf.stem \o "[x]"
    ELSE leaf.stem \o "[x][x]"

\* The codes of the types the document declares for its i-th element, in
\* order (a type without code declares none).
RECURSIVE CodesOf(_)
CodesOf(type_array) ==
    IF type_array = <<>> THEN <<>>
    ELSE Head(type_array).code \o CodesOf(Tail(type_array))

DeclaredCodes(i) ==
    IF IsSome(DocElements[i].type) THEN CodesOf(Unwrap(DocElements[i].type)) ELSE <<>>

\* C17 as stated: the name of a choice property is its leaf without the
\* "[x]" suffix.
C17_Original ==
    Converted =>
        \A k \in 1..Len(Properties) :
            \E i \in 1..Len(ParsedElements) :
                /\ ParsedElements[i].path = Properties[k].path
                /\ Properties[k].is_choice <=> LeafAt(i).nx > 0
                /\ IF LeafAt(i).nx > 0
                   THEN /\ Properties[k].name
                              = TextOf([LeafAt(i) EXCEPT !.nx = LeafAt(i).nx - 1])
                        /\ Properties[k].choice_types = DeclaredCodes(i)
                   ELSE /\ Properties[k].name = TextOf(LeafAt(i))
                        /\ Properties[k].choice_types = <<>>

\* C17: every property comes from an element with its path; is_choice is
\* true exactly when the leaf of that element ends in "[x]"; then the name
\* is the leaf with every trailing "[x]" removed and choice_types is the
\* list of the codes of the types the element declares, in order;
\* otherwise the name is the leaf unchanged and choice_types is empty.
C17_ChoiceNameDropsEveryMarker ==
    Converted =>
        \A k \in 1..Len(Properties) :
            \E i \in 1..Len(ParsedElements) :
                /\ ParsedElements[i].path = Properties[k].path
                /\ Properties[k].is_choice <=> LeafAt(i).nx > 0
                /\ IF LeafAt(i).nx > 0
                   THEN /\ Properties[k].name = LeafAt(i).stem
                        /\ Properties[k].choice_types = DeclaredCodes(i)
                   ELSE /\ Properties[k].name = TextOf(LeafAt(i))
                        /\ Properties[k].choice_types = <<>>

\* The elements T.value[x][x], declaring string and integer, and T.contact
\* gave the choice property value with both codes and the plain property
\* contact without choice types.
C17_Witness ==
    /\ Converted
    /\ Len(Properties) = 2
    /\ Properties[1].path = <<Seg("T"), SegXX("value")>>
    /\ Properties[1].is_choice /\ Properties[1].name = "value"
    /\ Properties[1].choice_types = <<"string", "integer">>
    /\ Properties[2].path = <<Seg("T"), Seg("contact")>>
    /\ ~Properties[2].is_choice /\ Properties[2].name = "contact"
    /\ Properties[2].choice_types = <<>>

\* The text after the last '/' of a url.
AfterLastSlash(url) == url[Len(url)]

\* The property_type the cases give for the declared types of an element.
ExpectedPropertyType(types) ==
    CASE Len(types) = 0 -> [variant |-> "BackboneElement", properties |-> <<>>]
      [] Len(types) = 1 /\ types[1].code = "Reference"
            /\ Len(types[1].target_profiles) >= 1 ->
            [variant |-> "Reference",
             target_types |-> [j \in 1..Len(types[1].target_profiles) |->
                                  AfterLastSlash(types[1].target_profiles[j])]]
      [] Len(types) = 1 /\ types[1].code \in PrimitiveCodes ->
            [variant |-> "Primitive", type_name |-> types[1].code]
      [] Len(types) = 1 /\ types[1].code \notin PrimitiveCodes
            /\ ~(types[1].code = "Reference" /\ Len(types[1].target_profiles) >= 1) ->
            [variant |-> "Complex", type_name |-> types[1].code]
      [] Len(types) >= 2 ->
            [variant |-> "Choice", types |-> [j \in 1..Len(types) |-> types[j].code]]

\* C18: the property_type of every property is the one of the first case
\* that applies to the types of the element it comes from: no type gives
\* BackboneElement without properties; one type Reference with at least
\* one target profile gives Reference with the last '/'-segment of each
\* profile, in order; one type of the primitive whitelist gives Primitive;
\* one other type, Reference without target profile included, gives
\* Complex; two or more types give Choice with all codes in order.
C18_PropertyTypeByFirstCase ==
    Converted =>
        \A k \in 1..Len(Properties) :
            \E i \in 1..Len(ParsedElements) :
                /\ ParsedElements[i].path = Properties[k].path
                /\ Properties[k].property_type
                      = ExpectedPropertyType(ParsedElements[i].types)

\* An element declaring Reference to the Patient and Group profiles gave a
\* Reference to Patient and Group.
C18_Witness ==
    /\ Converted
    /\ \E k \in 1..Len(Properties) :
          Properties[k].property_type
              = [variant |-> "Reference", target_types |-> <<"Patient", "Group">>]
    /\ \E i \in 1..Len(DocElements) :
          DocElements[i].type
              = Some(<<TypeObj(Some("Reference"), Some(<<PatientProfile, GroupProfile>>))>>)

(***************************************************************************)
(* Properties of to_resource_type and to_datatype.                         *)
(***************************************************************************)
\* to_resource_type or to_datatype has returned.
ConversionReturned == pc = "converted" /\ Parsed /\ ParseResult.ok /\ IsSome(result)
Conversion == Unwrap(result)

\* The kind the function called converts.
KindConverted == IF entry = "to_resource_type" THEN "Resource" ELSE "ComplexType"

\* C19: to_resource_type returns a type exactly when the parsed structure
\* has kind Resource, and to_datatype exactly when it has kind ComplexType;
\* on any other kind each returns an error, which carries no IR type, and
\* nothing is added to a graph; on the matching kind the type has the name,
\* url, base_definition and is_abstract of the parsed structure and the
\* properties its elements flatten to.
C19_ConversionChecksKind ==
    ConversionReturned =>
        /\ entry \in {"to_resource_type", "to_datatype"}
        /\ Conversion.ok <=> ParseResult.val.kind = KindConverted
        /\ ~Conversion.ok =>
              /\ "val" \notin DOMAIN Conversion
              /\ Conversion.err = IF entry = "to_resource_type" THEN "is not a resource"
                                  ELSE "is not a complex type"
        /\ graph = NewTypeGraph
        /\ Conversion.ok =>
              /\ Conversion.val.name = ParseResult.val.name
              /\ Conversion.val.url = ParseResult.val.url
              /\ Conversion.val.base = ParseResult.val.base_definition
              /\ Conversion.val.is_abstract = ParseResult.val.is_abstract
              /\ Conversion.val.properties
                    = elements_to_properties(ParseResult.val.elements, ParseResult.val.name)

\* to_datatype on an abstract complex type with a base definition returned
\* a datatype with that base, abstract, and the property contact.
C19_Witness ==
    /\ ConversionReturned /\ entry = "to_datatype"
    /\ ParseResult.val.kind = "ComplexType"
    /\ Doc.baseDefinition = Some(ParserBase) /\ Doc.abstract = Some(TRUE)
    /\ Conversion.ok
    /\ Conversion.val.name = "T" /\ Conversion.val.url = ParserUrl
    /\ Conversion.val.base = Some(ParserBase) /\ Conversion.val.is_abstract
    /\ Len(Conversion.val.properties) = 1
    /\ Conversion.val.properties[1].name = "contact"

(***************************************************************************)
(* Properties of the TypeGraph.                                            *)
(***************************************************************************)
\* The maps of the graph that have the name as a key.
MapsHolding(name) ==
    {m \in {"resources", "datatypes", "primitives", "profiles"} : name \in Keys(graph[m])}

AllNames ==
    Keys(graph.resources) \cup Keys(graph.datatypes) \cup Keys(graph.primitives)
        \cup Keys(graph.profiles)

\* C20: after any sequence of add_resource, add_datatype, add_primitive and
\* add_profile calls, and in every graph build() returns, a type name is a
\* key of at most one of the maps resources, datatypes, primitives and
\* profiles.
C20_Original == \A name \in AllNames : Cardinality(MapsHolding(name)) <= 1

\* What holds of a graph: within one map a name is a key once, whatever is
\* added again.
OneEntryPerNameAndMap ==
    \A m \in {"resources", "datatypes", "primitives", "profiles"} :
        \A i, j \in 1..Len(graph[m]) : graph[m][i].k = graph[m][j].k => i = j

(***************************************************************************)
(* Properties of the cardinalities.                                        *)
(***************************************************************************)
\* C21: every CardinalityRange of a property the parser produces has
\* min <= max whenever max is present, for every document, those whose
\* elements declare a min greater than their max included.
C21_Original ==
    Converted =>
        \A k \in 1..Len(Properties) :
            IsSome(Properties[k].cardinality.max) =>
                Properties[k].cardinality.min <= Unwrap(Properties[k].cardinality.max)

\* The element declares min <= max, or no finite max.
DeclaresOrderedBounds(i) ==
    ParsedElements[i].max.finite => ParsedElements[i].min <= ParsedElements[i].max.n

\* What holds of the cardinalities: min <= max on the properties of a
\* structure all of whose elements are parsed with min <= max.
OrderedBoundsArePreserved ==
    Converted /\ (\A i \in 1..Len(ParsedElements) : DeclaresOrderedBounds(i)) =>
        \A k \in 1..Len(Properties) :
            IsSome(Properties[k].cardinality.max) =>
                Properties[k].cardinality.min <= Unwrap(Properties[k].cardinality.max)

\* A function of CardinalityRange has returned.
CardinalityReturned == pc = "returned" /\ IsSome(output)

\* C22: is_required is true exactly when min >= 1, is_optional exactly
\* when min = 0, and is_array exactly when max is absent or greater than
\* 1; optional(), required(), optional_array() and required_array() return
\* (0, Some(1)), (1, Some(1)), (0, None) and (1, None).
C22_CardinalityPredicates ==
    CardinalityReturned =>
        /\ entry = "is_required" => (Unwrap(output) <=> Unwrap(input).min >= 1)
        /\ entry = "is_optional" => (Unwrap(output) <=> Unwrap(input).min = 0)
        /\ entry = "is_array" =>
              (Unwrap(output) <=> \/ Unwrap(input).max = None
                                  \/ \E n \in 2..MaxCard : Unwrap(input).max = Some(n))
        /\ entry = "optional" => Unwrap(output) = [min |-> 0, max |-> Some(1)]
        /\ entry = "required" => Unwrap(output) = [min |-> 1, max |-> Some(1)]
        /\ entry = "optional_array" => Unwrap(output) = [min |-> 0, max |-> None]
        /\ entry = "required_array" => Unwrap(output) = [min |-> 1, max |-> None]

\* is_array returned true on the range 1..2.
C22_Witness ==
    /\ CardinalityReturned
    /\ entry = "is_array"
    /\ input = Some([min |-> 1, max |-> Some(2)])
    /\ output = Some(TRUE)

(***************************************************************************)
(* Properties of the warnings of build().                                  *)
(***************************************************************************)
\* The documents categorization skips, the documents that fail parse or
\* conversion, and the search parameters that fail to parse.
SkippedDocs == {i \in 1..Len(structure_defs) : ~Recognized(structure_defs[i])}
FailedDocs ==
    {i \in 1..Len(structure_defs) :
        Recognized(structure_defs[i]) /\ ~Converts(structure_defs[i])}
FailedParams == {i \in 1..Len(search_defs) : ~parse_search_parameter(search_defs[i]).ok}

\* C23: whenever build() returns a graph, a warning has been emitted for
\* every item missing from it: one naming each document skipped at
\* categorization, one naming each StructureDefinition whose parse or
\* conversion failed, and one for each SearchParameter that failed to
\* parse.
C23_Original ==
    Returned =>
        /\ \A i \in SkippedDocs \cup FailedDocs :
              NameKey(structure_defs[i]) \in Range(warnings)
        /\ Len(warnings) >= Cardinality(SkippedDocs) + Cardinality(FailedDocs)
                               + Cardinality(FailedParams)

\* What holds of the warnings: there is exactly one for each document
\* skipped at categorization, naming it, and no other.
OnlySkippedDocsAreWarned ==
    Returned =>
        /\ \A i \in SkippedDocs : NameKey(structure_defs[i]) \in Range(warnings)
        /\ Len(warnings) = Cardinality(SkippedDocs)

\* build() returned a graph without a warning although a document failed
\* to parse and a search parameter failed to parse.
SilentlyDropped ==
    /\ Returned
    /\ warnings = <<>>
    /\ FailedDocs # {} /\ FailedParams # {}

(***************************************************************************)
(* Properties of the properties of a flattened structure.                  *)
(***************************************************************************)
\* Every Choice variant lists at least two types.
ChoiceListsTwoTypes ==
    Converted =>
        \A k \in 1..Len(Properties) :
            Properties[k].property_type.variant = "Choice"
                => Len(Properties[k].property_type.types) >= 2

\* C24: the property_type of a property is the Choice variant only when
\* the property has is_choice = true, and every Choice variant lists at
\* least two types.
C24_Original ==
    /\ ChoiceListsTwoTypes
    /\ Converted =>
          \A k \in 1..Len(Properties) :
              Properties[k].property_type.variant = "Choice" => Properties[k].is_choice

\* The element T.contact declaring two types gave a Choice property that
\* is not a choice.
ChoiceVariantOnPlainLeaf ==
    /\ Converted
    /\ \E k \in 1..Len(Properties) :
          /\ Properties[k].path = <<Seg("T"), Seg("contact")>>
          /\ Properties[k].property_type
                = [variant |-> "Choice", types |-> <<"string", "integer">>]
          /\ ~Properties[k].is_choice
          /\ Properties[k].choice_types = <<>>

(***************************************************************************)
(* Properties of merge_type_graphs.                                        *)
(***************************************************************************)
Merged == pc = "merged" /\ IsSome(input) /\ IsSome(output)
Base == Unwrap(input).base
Other == Unwrap(input).other

\* The entry the merged map must hold under the name.
MergedEntry(m) ==
    \A name \in Keys(Base[m]) \cup Keys(Other[m]) :
        /\ name \in Keys(Unwrap(output).val[m])
        /\ Lookup(Unwrap(output).val[m], name)
              = IF name \in Keys(Other[m]) THEN Lookup(Other[m], name)
                ELSE Lookup(Base[m], name)

\* C25: merge_type_graphs(base, other) always succeeds; in each of
\* resources, datatypes and primitives the result holds, once, other's
\* entry for every name other defines and base's entry for every name only
\* base defines, and no other name; fhir_version and metadata are those of
\* base, and no warning is emitted.
C25_MergeOverwrites ==
    Merged =>
        /\ Unwrap(output).ok
        /\ \A m \in {"resources", "datatypes", "primitives"} :
              /\ MergedEntry(m)
              /\ Keys(Unwrap(output).val[m]) = Keys(Base[m]) \cup Keys(Other[m])
              /\ Len(Unwrap(output).val[m]) = Cardinality(Keys(Base[m]) \cup Keys(Other[m]))
        /\ Unwrap(output).val.fhir_version = Base.fhir_version
        /\ Unwrap(output).val.source_packages = Base.source_packages
        /\ warnings = <<>>

\* Both graphs define Patient, base alone Observation and other alone
\* Group: the result has Patient and Group of other, Observation of base.
C25_Witness ==
    /\ Merged
    /\ Keys(Base.resources) = {"Patient", "Observation"}
    /\ Keys(Other.resources) = {"Patient", "Group"}
    /\ Lookup(Unwrap(output).val.resources, "Patient")
          = TypeFrom("hl7.fhir.us.core", "Patient")
    /\ Lookup(Unwrap(output).val.resources, "Group") = TypeFrom("hl7.fhir.us.core", "Group")
    /\ Lookup(Unwrap(output).val.resources, "Observation")
          = TypeFrom("hl7.fhir.r4.core", "Observation")
    /\ Unwrap(output).val.fhir_version = "R4"

(***************************************************************************)
(* Properties of the keys of a built graph.                                *)
(***************************************************************************)
\* C26: in every graph build() returns, the key of each entry of
\* resources, datatypes and primitives is the name of the stored type, also
\* when documents have no name (their key is "unknown") or share a name.
C26_KeyIsName ==
    Returned =>
        \A m \in {"resources", "datatypes", "primitives"} :
            \A i \in 1..Len(BuiltGraph[m]) : BuiltGraph[m][i].v.name = BuiltGraph[m][i].k

\* build() got a document without name, one named "unknown" (both have
\* the key "unknown") and one named Patient, and returned a graph with
\* entries under "unknown" and Patient.
C26_Witness ==
    /\ Returned
    /\ \E i, j \in 1..Len(structure_defs) :
          /\ structure_defs[i].name = None
          /\ structure_defs[j].name = Some("unknown")
          /\ NameKey(structure_defs[i]) = NameKey(structure_defs[j])
    /\ "unknown" \in Keys(BuiltGraph.datatypes)
    /\ "Patient" \in Keys(BuiltGraph.resources)

(***************************************************************************)
(* Properties of the locks of the resolver.                                *)
(***************************************************************************)
InOperation(t) == task[t].pc \notin {"idle", "done"}

\* C27: under any interleaving of resolve_type, is_primitive_type,
\* clear_cache and cache_stats calls of concurrent callers of one resolver,
\* every operation eventually returns, provided every call of the external
\* client returns: no caller waits forever for the lock of the document
\* cache or of the primitive cache.
C27_EveryOperationReturns ==
    \A t \in Tasks : InOperation(t) ~> (task[t].pc = "done" /\ task[t].holds = {})

\* clear_cache holds the lock of the document cache and waits for the lock
\* of the primitive cache, which is_primitive_type holds for its insert.
C27_Witness ==
    \E t, other \in Tasks :
        /\ task[t].pc = "clear_cache:primitives"
        /\ task[t].holds = {Guard("cache", "write")}
        /\ task[other].pc = "is_primitive_type:insert"
        /\ task[other].holds = {Guard("primitives", "write")}
        /\ ~CanWrite("primitives")

\* The locks exclude: a writer of a lock is alone on it.
LocksExclude ==
    \A lock \in {"cache", "primitives"} :
        /\ Cardinality(Holders(lock, "write")) <= 1
        /\ Holders(lock, "write") # {} => Holders(lock, "read") = {}

(***************************************************************************)
(* What a failed resolution leaves behind.                                 *)
(***************************************************************************)
\* Task t takes a step of its operation.
Steps(t) == task'[t].pc # task[t].pc /\ InOperation(t)

\* In this step the resolve_type of task t returns None.
ReturnsNone(t) ==
    /\ Steps(t)
    /\ task'[t].pc = "done"
    /\ task'[t].resolved = Some(Ok(None))

CachesUnchanged == cache' = cache /\ resolver_primitives' = resolver_primitives

\* The entries of the caches that this step stores or replaces.
NewDocuments ==
    {url \in DOMAIN cache' : url \notin DOMAIN cache \/ cache'[url] # cache[url]}
NewBooleans ==
    {code \in DOMAIN resolver_primitives' :
        \/ code \notin DOMAIN resolver_primitives
        \/ resolver_primitives'[code] # resolver_primitives[code]}

\* Task t returns from a call made after a resolve_type of the same url had
\* returned None.
DoneAfterNone(t) ==
    /\ task[t].pc = "done"
    /\ task[t].op \in {"resolve_type", "is_primitive_type"}
    /\ task[t].after_none

ServedFromCacheAfterNone ==
    \E t \in Tasks : DoneAfterNone(t) /\ task[t].ncalls = 0 /\ task[t].hit

(***************************************************************************)
(* The names of the properties of one conversion.                          *)
(***************************************************************************)
DistinctNames ==
    \A k, l \in 1..Len(Properties) : Properties[k].name = Properties[l].name => k = l

\* C29: the properties returned by elements_to_properties have pairwise
\* distinct names, for every element list, also when a choice element
\* (leaf "value[x]") occurs twice or together with the leaf "value".
C29_Original == Converted => DistinctNames

\* What holds: the names are pairwise distinct when no leaf ends in "[x]".
DistinctNamesOfPlainLeaves == Converted /\ NoChoiceLeaf => DistinctNames

\* The elements T.value[x], T.contact and T.value[x] gave the properties
\* value, contact and value.
ChoiceNameTwice ==
    /\ Converted
    /\ [i \in 1..Len(ParsedElements) |-> ParsedElements[i].path]
          = <<(<<Seg("T"), SegX("value")>>), (<<Seg("T"), Seg("contact")>>),
              (<<Seg("T"), SegX("value")>>)>>
    /\ [k \in 1..Len(Properties) |-> Properties[k].name]
          = <<"value", "contact", "value">>

(***************************************************************************)
(* The caches after clear_cache.                                           *)
(***************************************************************************)
\* clear_cache has returned to task t, no operation was started since, and
\* none is running.
AllQuietSinceClear(t) ==
    /\ Finished(t, "clear_cache")
    /\ task[t].started_at = started
    /\ \A other \in Tasks : ~InOperation(other)

\* C30: once clear_cache has returned and no operation is started
\* afterwards, both caches are empty when the operations that were in
\* flight during the clear have finished, however clear_cache interleaves
\* with concurrent resolve_type and is_primitive_type calls.
C30_Original ==
    \A t \in Tasks :
        AllQuietSinceClear(t) => cache = EmptyMap /\ resolver_primitives = EmptyMap

\* A resolve_type that had missed the cache before clear_cache emptied it
\* stored its document after clear_cache returned.
StoredAfterClear ==
    \E t, other \in Tasks :
        /\ AllQuietSinceClear(t)
        /\ Finished(other, "resolve_type")
        /\ ~task[other].hit
        /\ task[other].canonical_url \in DOMAIN cache
        /\ resolver_primitives = EmptyMap

\* And so did an is_primitive_type, into both caches.
PrimitiveStoredAfterClear ==
    \E t, other \in Tasks :
        /\ AllQuietSinceClear(t)
        /\ Finished(other, "is_primitive_type")
        /\ task[other].arg \in DOMAIN resolver_primitives
        /\ task[other].canonical_url \in DOMAIN cache
====
